---- MODULE Spec2Model ----
(***************************************************************************)
(* State-machine model of src/bot.py (SideHustle Telegram bot): the        *)
(* sqlite tables users / jobs / user_activity / daily_metrics, the         *)
(* in-memory user_state map, the worker threads of the bot, each at a      *)
(* statement of the handler it runs, and the two threads that run          *)
(* update_daily_metrics.  A step of the model is one access to the state   *)
(* the threads share (one SQL statement, one read or write of user_state)  *)
(* together with the API calls made next to it, so that the handlers       *)
(* interleave as the threads of the program do.                            *)
(* Message texts are sequences of one-character strings so that the        *)
(* parsing the handlers perform (command extraction, split, int, prefix    *)
(* tests, slicing) is computed, not assumed.                               *)
(***************************************************************************)
EXTENDS Integers, Sequences, FiniteSets, TLC

(* ------------------------------ bounds --------------------------------- *)
\* number of Telegram user ids that talk to the bot
NumUsers == 3
\* number of calendar days the run spans
MaxDay == 2
\* failed writes of log_activity (swallowed sqlite errors) in one run
MaxLogFailures == 1
\* process restarts in one run
MaxRestarts == 1
\* updates received in one run
MaxMessages == 6

Users == 1..NumUsers
\* a chat that is not a private chat: a group the bot was added to
GroupChat == NumUsers + 1

(* ------------------------- text (str) helpers -------------------------- *)
Min(a, b) == IF a <= b THEN a ELSE b

\* s[:n]
Prefix(s, n) == SubSeq(s, 1, Min(n, Len(s)))

\* s[n:]  (n is the 0-based start index)
Suffix(s, n) == SubSeq(s, n + 1, Len(s))

\* s.startswith(p)
StartsWith(s, p) == Len(s) >= Len(p) /\ SubSeq(s, 1, Len(p)) = p

\* 1-based index of the first character of s from position i on that is in
\* the set C, 0 when there is none
FindFrom(s, C, i) ==
    LET hits == {k \in i..Len(s) : s[k] \in C}
    IN  IF hits = {} THEN 0
        ELSE CHOOSE k \in hits : \A j \in hits : k <= j

\* s.find(c) + 1
Find(s, c) == FindFrom(s, {c}, 1)

\* s.split(c): every field between occurrences of c, empty fields kept
RECURSIVE SplitOn(_, _)
SplitOn(s, c) ==
    LET i == Find(s, c)
    IN  IF i = 0 THEN <<s>>
        ELSE <<SubSeq(s, 1, i - 1)>> \o SplitOn(Suffix(s, i), c)

\* s.split(c, 1): at most one split
SplitOnce(s, c) ==
    LET i == Find(s, c)
    IN  IF i = 0 THEN <<s>>
        ELSE <<SubSeq(s, 1, i - 1), Suffix(s, i)>>

\* the characters str.isspace() holds for, which str.split() and str.strip()
\* take for white space; a character that is not printable ASCII is written
\* as U+ and its code point in hexadecimal
Whitespace ==
    {"\t", "\n", "U+B", "\f", "\r", "U+1C", "U+1D", "U+1E", "U+1F", " ", "U+85", "U+A0",
     "U+1680", "U+2000", "U+2001", "U+2002", "U+2003", "U+2004", "U+2005", "U+2006", "U+2007",
     "U+2008", "U+2009", "U+200A", "U+2028", "U+2029", "U+202F", "U+205F", "U+3000"}

\* s.split(): fields separated by runs of white space, no empty fields
RECURSIVE SplitWS(_)
SplitWS(s) ==
    IF s = <<>> THEN <<>>
    ELSE IF s[1] \in Whitespace THEN SplitWS(Tail(s))
    ELSE LET i == FindFrom(s, Whitespace, 1)
         IN  IF i = 0 THEN <<s>>
             ELSE <<SubSeq(s, 1, i - 1)>> \o SplitWS(Suffix(s, i))

\* int() reads s without the white space at its two ends.  Its white space
\* is that of str.split() but for the four separators U+1C to U+1F
Strip(s) ==
    LET black == {k \in 1..Len(s) :
                     s[k] \notin Whitespace \ {"U+1C", "U+1D", "U+1E", "U+1F"}}
    IN  IF black = {} THEN <<>>
        ELSE SubSeq(s, CHOOSE k \in black : \A j \in black : k <= j,
                       CHOOSE k \in black : \A j \in black : k >= j)

\* the digits str(n) writes
AsciiDigits == <<"0", "1", "2", "3", "4", "5", "6", "7", "8", "9">>

\* the decimal digits int() reads: the characters of Unicode category Nd of
\* the interpreter (Unicode 14), in blocks of the ten digits of one script in
\* ascending order, the ASCII block first
DigitBlocks ==
    {<<"0", "1", "2", "3", "4", "5", "6", "7", "8", "9">>,
     <<"U+660", "U+661", "U+662", "U+663", "U+664", "U+665", "U+666", "U+667", "U+668", "U+669">>,
     <<"U+6F0", "U+6F1", "U+6F2", "U+6F3", "U+6F4", "U+6F5", "U+6F6", "U+6F7", "U+6F8", "U+6F9">>,
     <<"U+7C0", "U+7C1", "U+7C2", "U+7C3", "U+7C4", "U+7C5", "U+7C6", "U+7C7", "U+7C8", "U+7C9">>,
     <<"U+966", "U+967", "U+968", "U+969", "U+96A", "U+96B", "U+96C", "U+96D", "U+96E", "U+96F">>,
     <<"U+9E6", "U+9E7", "U+9E8", "U+9E9", "U+9EA", "U+9EB", "U+9EC", "U+9ED", "U+9EE", "U+9EF">>,
     <<"U+A66", "U+A67", "U+A68", "U+A69", "U+A6A", "U+A6B", "U+A6C", "U+A6D", "U+A6E", "U+A6F">>,
     <<"U+AE6", "U+AE7", "U+AE8", "U+AE9", "U+AEA", "U+AEB", "U+AEC", "U+AED", "U+AEE", "U+AEF">>,
     <<"U+B66", "U+B67", "U+B68", "U+B69", "U+B6A", "U+B6B", "U+B6C", "U+B6D", "U+B6E", "U+B6F">>,
     <<"U+BE6", "U+BE7", "U+BE8", "U+BE9", "U+BEA", "U+BEB", "U+BEC", "U+BED", "U+BEE", "U+BEF">>,
     <<"U+C66", "U+C67", "U+C68", "U+C69", "U+C6A", "U+C6B", "U+C6C", "U+C6D", "U+C6E", "U+C6F">>,
     <<"U+CE6", "U+CE7", "U+CE8", "U+CE9", "U+CEA", "U+CEB", "U+CEC", "U+CED", "U+CEE", "U+CEF">>,
     <<"U+D66", "U+D67", "U+D68", "U+D69", "U+D6A", "U+D6B", "U+D6C", "U+D6D", "U+D6E", "U+D6F">>,
     <<"U+DE6", "U+DE7", "U+DE8", "U+DE9", "U+DEA", "U+DEB", "U+DEC", "U+DED", "U+DEE", "U+DEF">>,
     <<"U+E50", "U+E51", "U+E52", "U+E53", "U+E54", "U+E55", "U+E56", "U+E57", "U+E58", "U+E59">>,
     <<"U+ED0", "U+ED1", "U+ED2", "U+ED3", "U+ED4", "U+ED5", "U+ED6", "U+ED7", "U+ED8", "U+ED9">>,
     <<"U+F20", "U+F21", "U+F22", "U+F23", "U+F24", "U+F25", "U+F26", "U+F27", "U+F28", "U+F29">>,
     <<"U+1040", "U+1041", "U+1042", "U+1043", "U+1044", "U+1045", "U+1046", "U+1047", "U+1048", "U+1049">>,
     <<"U+1090", "U+1091", "U+1092", "U+1093", "U+1094", "U+1095", "U+1096", "U+1097", "U+1098", "U+1099">>,
     <<"U+17E0", "U+17E1", "U+17E2", "U+17E3", "U+17E4", "U+17E5", "U+17E6", "U+17E7", "U+17E8", "U+17E9">>,
     <<"U+1810", "U+1811", "U+1812", "U+1813", "U+1814", "U+1815", "U+1816", "U+1817", "U+1818", "U+1819">>,
     <<"U+1946", "U+1947", "U+1948", "U+1949", "U+194A", "U+194B", "U+194C", "U+194D", "U+194E", "U+194F">>,
     <<"U+19D0", "U+19D1", "U+19D2", "U+19D3", "U+19D4", "U+19D5", "U+19D6", "U+19D7", "U+19D8", "U+19D9">>,
     <<"U+1A80", "U+1A81", "U+1A82", "U+1A83", "U+1A84", "U+1A85", "U+1A86", "U+1A87", "U+1A88", "U+1A89">>,
     <<"U+1A90", "U+1A91", "U+1A92", "U+1A93", "U+1A94", "U+1A95", "U+1A96", "U+1A97", "U+1A98", "U+1A99">>,
     <<"U+1B50", "U+1B51", "U+1B52", "U+1B53", "U+1B54", "U+1B55", "U+1B56", "U+1B57", "U+1B58", "U+1B59">>,
     <<"U+1BB0", "U+1BB1", "U+1BB2", "U+1BB3", "U+1BB4", "U+1BB5", "U+1BB6", "U+1BB7", "U+1BB8", "U+1BB9">>,
     <<"U+1C40", "U+1C41", "U+1C42", "U+1C43", "U+1C44", "U+1C45", "U+1C46", "U+1C47", "U+1C48", "U+1C49">>,
     <<"U+1C50", "U+1C51", "U+1C52", "U+1C53", "U+1C54", "U+1C55", "U+1C56", "U+1C57", "U+1C58", "U+1C59">>,
     <<"U+A620", "U+A621", "U+A622", "U+A623", "U+A624", "U+A625", "U+A626", "U+A627", "U+A628", "U+A629">>,
     <<"U+A8D0", "U+A8D1", "U+A8D2", "U+A8D3", "U+A8D4", "U+A8D5", "U+A8D6", "U+A8D7", "U+A8D8", "U+A8D9">>,
     <<"U+A900", "U+A901", "U+A902", "U+A903", "U+A904", "U+A905", "U+A906", "U+A907", "U+A908", "U+A909">>,
     <<"U+A9D0", "U+A9D1", "U+A9D2", "U+A9D3", "U+A9D4", "U+A9D5", "U+A9D6", "U+A9D7", "U+A9D8", "U+A9D9">>,
     <<"U+A9F0", "U+A9F1", "U+A9F2", "U+A9F3", "U+A9F4", "U+A9F5", "U+A9F6", "U+A9F7", "U+A9F8", "U+A9F9">>,
     <<"U+AA50", "U+AA51", "U+AA52", "U+AA53", "U+AA54", "U+AA55", "U+AA56", "U+AA57", "U+AA58", "U+AA59">>,
     <<"U+ABF0", "U+ABF1", "U+ABF2", "U+ABF3", "U+ABF4", "U+ABF5", "U+ABF6", "U+ABF7", "U+ABF8", "U+ABF9">>,
     <<"U+FF10", "U+FF11", "U+FF12", "U+FF13", "U+FF14", "U+FF15", "U+FF16", "U+FF17", "U+FF18", "U+FF19">>,
     <<"U+104A0", "U+104A1", "U+104A2", "U+104A3", "U+104A4", "U+104A5", "U+104A6", "U+104A7", "U+104A8", "U+104A9">>,
     <<"U+10D30", "U+10D31", "U+10D32", "U+10D33", "U+10D34", "U+10D35", "U+10D36", "U+10D37", "U+10D38", "U+10D39">>,
     <<"U+11066", "U+11067", "U+11068", "U+11069", "U+1106A", "U+1106B", "U+1106C", "U+1106D", "U+1106E", "U+1106F">>,
     <<"U+110F0", "U+110F1", "U+110F2", "U+110F3", "U+110F4", "U+110F5", "U+110F6", "U+110F7", "U+110F8", "U+110F9">>,
     <<"U+11136", "U+11137", "U+11138", "U+11139", "U+1113A", "U+1113B", "U+1113C", "U+1113D", "U+1113E", "U+1113F">>,
     <<"U+111D0", "U+111D1", "U+111D2", "U+111D3", "U+111D4", "U+111D5", "U+111D6", "U+111D7", "U+111D8", "U+111D9">>,
     <<"U+112F0", "U+112F1", "U+112F2", "U+112F3", "U+112F4", "U+112F5", "U+112F6", "U+112F7", "U+112F8", "U+112F9">>,
     <<"U+11450", "U+11451", "U+11452", "U+11453", "U+11454", "U+11455", "U+11456", "U+11457", "U+11458", "U+11459">>,
     <<"U+114D0", "U+114D1", "U+114D2", "U+114D3", "U+114D4", "U+114D5", "U+114D6", "U+114D7", "U+114D8", "U+114D9">>,
     <<"U+11650", "U+11651", "U+11652", "U+11653", "U+11654", "U+11655", "U+11656", "U+11657", "U+11658", "U+11659">>,
     <<"U+116C0", "U+116C1", "U+116C2", "U+116C3", "U+116C4", "U+116C5", "U+116C6", "U+116C7", "U+116C8", "U+116C9">>,
     <<"U+11730", "U+11731", "U+11732", "U+11733", "U+11734", "U+11735", "U+11736", "U+11737", "U+11738", "U+11739">>,
     <<"U+118E0", "U+118E1", "U+118E2", "U+118E3", "U+118E4", "U+118E5", "U+118E6", "U+118E7", "U+118E8", "U+118E9">>,
     <<"U+11950", "U+11951", "U+11952", "U+11953", "U+11954", "U+11955", "U+11956", "U+11957", "U+11958", "U+11959">>,
     <<"U+11C50", "U+11C51", "U+11C52", "U+11C53", "U+11C54", "U+11C55", "U+11C56", "U+11C57", "U+11C58", "U+11C59">>,
     <<"U+11D50", "U+11D51", "U+11D52", "U+11D53", "U+11D54", "U+11D55", "U+11D56", "U+11D57", "U+11D58", "U+11D59">>,
     <<"U+11DA0", "U+11DA1", "U+11DA2", "U+11DA3", "U+11DA4", "U+11DA5", "U+11DA6", "U+11DA7", "U+11DA8", "U+11DA9">>,
     <<"U+16A60", "U+16A61", "U+16A62", "U+16A63", "U+16A64", "U+16A65", "U+16A66", "U+16A67", "U+16A68", "U+16A69">>,
     <<"U+16AC0", "U+16AC1", "U+16AC2", "U+16AC3", "U+16AC4", "U+16AC5", "U+16AC6", "U+16AC7", "U+16AC8", "U+16AC9">>,
     <<"U+16B50", "U+16B51", "U+16B52", "U+16B53", "U+16B54", "U+16B55", "U+16B56", "U+16B57", "U+16B58", "U+16B59">>,
     <<"U+1D7CE", "U+1D7CF", "U+1D7D0", "U+1D7D1", "U+1D7D2", "U+1D7D3", "U+1D7D4", "U+1D7D5", "U+1D7D6", "U+1D7D7">>,
     <<"U+1D7D8", "U+1D7D9", "U+1D7DA", "U+1D7DB", "U+1D7DC", "U+1D7DD", "U+1D7DE", "U+1D7DF", "U+1D7E0", "U+1D7E1">>,
     <<"U+1D7E2", "U+1D7E3", "U+1D7E4", "U+1D7E5", "U+1D7E6", "U+1D7E7", "U+1D7E8", "U+1D7E9", "U+1D7EA", "U+1D7EB">>,
     <<"U+1D7EC", "U+1D7ED", "U+1D7EE", "U+1D7EF", "U+1D7F0", "U+1D7F1", "U+1D7F2", "U+1D7F3", "U+1D7F4", "U+1D7F5">>,
     <<"U+1D7F6", "U+1D7F7", "U+1D7F8", "U+1D7F9", "U+1D7FA", "U+1D7FB", "U+1D7FC", "U+1D7FD", "U+1D7FE", "U+1D7FF">>,
     <<"U+1E140", "U+1E141", "U+1E142", "U+1E143", "U+1E144", "U+1E145", "U+1E146", "U+1E147", "U+1E148", "U+1E149">>,
     <<"U+1E2F0", "U+1E2F1", "U+1E2F2", "U+1E2F3", "U+1E2F4", "U+1E2F5", "U+1E2F6", "U+1E2F7", "U+1E2F8", "U+1E2F9">>,
     <<"U+1E950", "U+1E951", "U+1E952", "U+1E953", "U+1E954", "U+1E955", "U+1E956", "U+1E957", "U+1E958", "U+1E959">>,
     <<"U+1FBF0", "U+1FBF1", "U+1FBF2", "U+1FBF3", "U+1FBF4", "U+1FBF5", "U+1FBF6", "U+1FBF7", "U+1FBF8", "U+1FBF9">>}

\* the characters int() takes for a decimal digit
DigitChars == UNION {{b[i] : i \in 1..Len(b)} : b \in DigitBlocks}

DigitValue(c) ==
    LET b == CHOOSE d \in DigitBlocks : \E i \in 1..Len(d) : d[i] = c
    IN  (CHOOSE i \in 1..Len(b) : b[i] = c) - 1

\* the digits of an int() argument: the text without the white space around
\* it and without its sign
Unsigned(s) ==
    LET t == Strip(s)
    IN  IF t # <<>> /\ t[1] \in {"+", "-"} THEN Tail(t) ELSE t

\* int(s) succeeds (no ValueError): optional white space around an optional
\* sign and decimal digits, with single underscores between digits
IntOk(s) ==
    LET d == Unsigned(s)
    IN  /\ d # <<>>
        /\ \A i \in 1..Len(d) : d[i] \in DigitChars \cup {"_"}
        /\ d[1] # "_"
        /\ d[Len(d)] # "_"
        /\ \A i \in 1..(Len(d) - 1) : ~(d[i] = "_" /\ d[i + 1] = "_")

\* int(s), for s with IntOk(s).  A Python int has no width, so the number is
\* kept as the text str() writes for it: a '-' when it is below zero, and
\* its ASCII digits without underscores and leading zeros
IntOf(s) ==
    LET d == SelectSeq(Unsigned(s), LAMBDA c : c # "_")
        a == [i \in 1..Len(d) |-> AsciiDigits[DigitValue(d[i]) + 1]]
        nz == {k \in 1..Len(a) : a[k] # "0"}
        m == IF nz = {} THEN <<"0">>
             ELSE SubSeq(a, CHOOSE k \in nz : \A j \in nz : k <= j, Len(a))
    IN  IF Strip(s)[1] = "-" /\ m # <<"0">> THEN <<"-">> \o m ELSE m

\* binding the int n to a statement raises OverflowError: n is outside the
\* 64-bit INTEGER of sqlite, -2^63 .. 2^63 - 1
TooLarge(n) ==
    LET m == IF n[1] = "-" THEN Tail(n) ELSE n
        lim == <<"9", "2", "2", "3", "3", "7", "2", "0", "3", "6", "8", "5", "4", "7", "7", "5",
                 "8", "0", IF n[1] = "-" THEN "8" ELSE "7">>
    IN  \/ Len(m) > Len(lim)
        \/ /\ Len(m) = Len(lim)
           /\ \E k \in 1..Len(m) :
                  /\ DigitValue(m[k]) > DigitValue(lim[k])
                  /\ \A j \in 1..(k - 1) : m[j] = lim[j]

\* str(n), for the numbers of the model
RECURSIVE ToStr(_)
ToStr(n) ==
    IF n < 0 THEN <<"-">> \o ToStr(0 - n)
    ELSE IF n < 10 THEN <<AsciiDigits[n + 1]>>
    ELSE ToStr(n \div 10) \o <<AsciiDigits[(n % 10) + 1]>>

\* the user id that is the number n: the ids in use are 1..NumUsers, and
\* every other number is an id no row has, for which 0 stands
UserId(n) ==
    IF \E u \in Users : ToStr(u) = n THEN CHOOSE u \in Users : ToStr(u) = n ELSE 0

(* ------------------------------ texts ---------------------------------- *)
T_start       == <<"/", "s", "t", "a", "r", "t">>
T_freelancer  == <<"U+1F464", " ", "I", "'", "m", " ", "a", " ", "F", "r", "e", "e", "l", "a", "n", "c", "e", "r">>
T_client      == <<"U+1F9D1", "U+200D", "U+1F4BC", " ", "I", "'", "m", " ", "a", " ", "C", "l", "i", "e", "n", "t">>
T_jobs        == <<"/", "j", "o", "b", "s">>
T_profile     == <<"/", "p", "r", "o", "f", "i", "l", "e">>
T_help        == <<"/", "h", "e", "l", "p">>
T_getid       == <<"/", "g", "e", "t", "i", "d">>
T_dashboard   == <<"/", "d", "a", "s", "h", "b", "o", "a", "r", "d">>
T_users       == <<"/", "u", "s", "e", "r", "s">>
T_alljobs     == <<"/", "a", "l", "l", "j", "o", "b", "s">>
T_viewuser    == <<"/", "v", "i", "e", "w", "u", "s", "e", "r">>
T_ban_        == <<"/", "b", "a", "n", "_">>
T_unban_      == <<"/", "u", "n", "b", "a", "n", "_">>
T_dailyreport == <<"/", "d", "a", "i", "l", "y", "r", "e", "p", "o", "r", "t">>
T_analytics   == <<"/", "a", "n", "a", "l", "y", "t", "i", "c", "s">>
T_broadcast   == <<"/", "b", "r", "o", "a", "d", "c", "a", "s", "t">>
T_foo         == <<"/", "f", "o", "o">>
T_cancel      == <<"c", "a", "n", "c", "e", "l", "_", "b", "r", "o", "a", "d", "c", "a", "s", "t">>
T_confirm     == <<"c", "o", "n", "f", "i", "r", "m", "_", "b", "r", "o", "a", "d", "c", "a", "s", "t", ":">>

\* the two texts of the reply keyboard built by start
RoleTexts == {T_freelancer, T_client}

\* "Freelancer" in message.text
HasFreelancer(s) ==
    \E i \in 1..Len(s) :
        StartsWith(Suffix(s, i - 1), <<"F", "r", "e", "e", "l", "a", "n", "c", "e", "r">>)

\* telebot util.extract_command: the first word without its '/' and @bot suffix
ExtractCommand(s) ==
    IF StartsWith(s, <<"/">>) /\ SplitWS(s) # <<>>
    THEN Tail(SplitOn(SplitWS(s)[1], "@")[1])
    ELSE <<>>

\* message_handler(commands=[c]) accepts the text
IsCommand(s, c) == StartsWith(s, <<"/">>) /\ ExtractCommand(s) = Tail(c)

W_a == <<"a">>
W_b == <<"b">>

\* slice lengths used when a text is copied into a log detail or a preview
SkillsLogLen == 50
TitleLogLen == 30
UnknownLogLen == 50
BroadcastLogLen == 50
PreviewLen == 100

(* ------------------------------- state --------------------------------- *)
VARIABLES
    ADMIN_ID,        \* configured admin id, 0 when unset (falsy, like None)
    TZ,              \* the time zone of the host: "behind" UTC (its date changes
                     \* after the date of UTC), "UTC", or "ahead" of UTC (its date
                     \* changes first)
    utc,             \* current calendar day in UTC: the day of CURRENT_TIMESTAMP
    today,           \* current calendar day in the zone of the host: the day of
                     \* datetime.now()
    users,           \* users table: user_id -> row
    jobs,            \* jobs table: sequence of rows, job id = index
    user_activity,   \* user_activity table: sequence of rows, in insertion order
    daily_metrics,   \* daily_metrics table: sequence of rows
    user_state,      \* in-memory dict: user_id -> {"step": ..., ...}
    prompts,         \* the broadcast confirmation messages sent, with the text
                     \* each one shows now
    workers,         \* the worker threads of the bot: the update each one holds,
                     \* the statement it is at and the locals of the handler
    metrics,         \* the threads that run update_daily_metrics (the metrics
                     \* thread and the main thread): statement and locals
    sent,            \* outgoing API calls made by the step taken last
    received,        \* updates received so far
    faults,          \* log_activity failures (swallowed sqlite errors) still to come
    write_lock,      \* the write lock of the database file: the worker whose
                     \* connection holds it between a statement and its commit (0:
                     \* none), and the workers whose statement has waited for it
                     \* and timed out ("database is locked") since it was taken
    outages,         \* failing Telegram API calls still to come
    lost,            \* the user_state entries the last restart discarded, per user
                     \* who has not sent a message since
    restarts,        \* process restarts so far
    runs             \* the rows written by the update_daily_metrics runs that began
                     \* after the last change of users, jobs or user_activity and
                     \* of the day (the last two of them)

vars == <<ADMIN_ID, TZ, utc, today, users, jobs, user_activity, daily_metrics, user_state,
          prompts, workers, metrics, sent, received, faults, write_lock, outages, lost,
          restarts, runs>>

\* values ADMIN_ID takes after lines 18-24 (an id, or unset)
AdminIds == {0, 1}

\* TeleBot(BOT_TOKEN) is threaded: handlers run on a pool of num_threads
\* worker threads (the library default)
NumThreads == 2
Workers == 1..NumThreads

\* a worker that holds no update; the fields after `handler` are the locals
\* of the handler: the filters tested so far, the dict job_data refers to and
\* whether user_state still holds that very dict, the id of the job created,
\* the rows and counts fetched, the loop index, the two counters of the
\* broadcast loop, the date read from the clock, the confirmation message of
\* a callback; `orphan` records that the update is the first of a client
\* whose accumulated job a restart discarded
IdleWorker == [pc |-> "idle",
               msg |-> [from_user |-> 0, chat |-> 0, text |-> <<>>, seq |-> 0], handler |-> "None", tested |-> 0,
               job_data |-> [step |-> "None"], live |-> FALSE, job_id |-> 0,
               fetched |-> <<>>, i |-> 0, sent_count |-> 0, failed_count |-> 0, today |-> 0, prompt |-> 0, orphan |-> FALSE,
               logged |-> 0]

\* the threads that run update_daily_metrics, and one that is not in it; the
\* fields are the locals of the function, `clean` records that users, jobs,
\* user_activity and the day are as they were at its first SELECT, and `fired`
\* is the day the job of the scheduler last came due
MetricsThreads == {"main", "schedule"}
IdleRun == [pc |-> "idle", today |-> 0, new_users |-> 0, new_jobs |-> 0,
            active_users |-> 0, clean |-> TRUE, fired |-> 0]

\* the empty dict / empty table
Empty == [x \in {} |-> x]

\* d with key k set to v (dict assignment, row insert)
Put(d, k, v) == [x \in DOMAIN d \cup {k} |-> IF x = k THEN v ELSE d[x]]

\* d.pop(k, None)
Pop(d, k) == [x \in DOMAIN d \ {k} |-> d[x]]

\* message.from_user.username or ""
Username(u) == IF u = 1 THEN <<>> ELSE <<"u">> \o ToStr(u)

\* the elements of a set of numbers in ascending order (rowid order of a
\* SELECT without ORDER BY) and in descending order (ORDER BY id DESC)
RECURSIVE Ascending(_)
Ascending(S) ==
    IF S = {} THEN <<>>
    ELSE LET x == CHOOSE y \in S : \A z \in S : y <= z
         IN  <<x>> \o Ascending(S \ {x})

RECURSIVE Descending(_)
Descending(S) ==
    IF S = {} THEN <<>>
    ELSE LET x == CHOOSE y \in S : \A z \in S : y >= z
         IN  <<x>> \o Descending(S \ {x})

\* the elements of sequence s
Range(s) == {s[i] : i \in 1..Len(s)}

(* --------------------------- helper functions --------------------------- *)
\* is_admin
is_admin(user_id) == IF ADMIN_ID = 0 THEN FALSE ELSE user_id = ADMIN_ID

\* log_activity that keeps one event per user and action
log_activity_latest(tbl, user_id, action, details, ok) ==
    IF ok
    THEN Append(SelectSeq(tbl, LAMBDA e : ~(e.user_id = user_id /\ e.action = action)),
                [user_id |-> user_id, action |-> action,
                 details |-> details, timestamp |-> utc])
    ELSE tbl

\* log_activity: one INSERT, its timestamp the CURRENT_TIMESTAMP of sqlite; a
\* failure is caught and the row is not written
log_activity(tbl, user_id, action, details, ok) ==
    IF ok
    THEN Append(tbl, [user_id |-> user_id, action |-> action,
                      details |-> details, timestamp |-> utc])
    ELSE tbl

\* save_user: INSERT OR REPLACE INTO users (user_id, username, role); a row
\* with the same primary key is deleted first, so every column that is not
\* given takes its DEFAULT (created: CURRENT_TIMESTAMP)
save_user(tbl, user_id, username, role) ==
    Put(tbl, user_id, [username |-> username, role |-> role, skills |-> <<>>,
                       location |-> <<>>, is_banned |-> 0, created |-> utc])

\* UPDATE users SET <col>=? WHERE user_id=?  (no row: nothing changes)
update_user(tbl, user_id, col, val) ==
    IF user_id \in DOMAIN tbl
    THEN [tbl EXCEPT ![user_id] = [@ EXCEPT ![col] = val]]
    ELSE tbl

\* create_job that leaves the client_id column empty
create_job_no_client(tbl, client_id, title, description, budget) ==
    Append(tbl, [client_id |-> 0, title |-> title,
                 description |-> description, budget |-> budget,
                 status |-> "open", created |-> utc])

\* create_job: INSERT INTO jobs; status and created take their DEFAULT
create_job(tbl, client_id, title, description, budget) ==
    Append(tbl, [client_id |-> client_id, title |-> title,
                 description |-> description, budget |-> budget,
                 status |-> "open", created |-> utc])

\* get_jobs: ids of the open jobs, newest first, at most 10
JobListLimit == 10

get_jobs(tbl) ==
    Prefix(Descending({i \in 1..Len(tbl) : tbl[i].status = "open"}), JobListLimit)

\* get_freelancers without the is_banned condition
get_freelancers_all(tbl) ==
    Ascending({u \in DOMAIN tbl : tbl[u].role = "freelancer"})

\* get_freelancers: SELECT user_id FROM users WHERE role='freelancer' AND is_banned=0
get_freelancers(tbl) ==
    Ascending({u \in DOMAIN tbl : tbl[u].role = "freelancer" /\ tbl[u].is_banned = 0})

\* handle_callback: SELECT user_id FROM users WHERE is_banned=0
get_active_users(tbl) ==
    Ascending({u \in DOMAIN tbl : tbl[u].is_banned = 0})

\* one outgoing API call and whether it succeeded
Out(to, kind, body, ok) == [to |-> to, kind |-> kind, body |-> body, ok |-> ok]

\* another connection holds the write lock
Locked == write_lock.holder # 0

\* the outcomes a log_activity call of worker w can have: with the write
\* lock free the INSERT succeeds or fails for another reason; with the lock
\* held by another connection it waits, and it fails when its timeout ends
\* before the lock is released, which happens to a thread once while the lock
\* is held
LogOutcomes(w) ==
    IF ~Locked THEN (IF faults > 0 THEN {TRUE, FALSE} ELSE {TRUE})
    ELSE IF w \in write_lock.timed_out THEN {}
    ELSE {FALSE}

\* one call of log_activity by worker w
Logged(w, user_id, action, details, ok) ==
    /\ user_activity' = log_activity(user_activity, user_id, action, details, ok)
    /\ faults' = IF ok \/ Locked THEN faults ELSE faults - 1
    /\ write_lock' = IF ok \/ ~Locked THEN write_lock
                     ELSE [write_lock EXCEPT !.timed_out = @ \cup {w}]

\* no write to the database
NoLog == UNCHANGED <<user_activity, faults, write_lock>>

\* the outcomes a write of worker w outside log_activity can have: it is
\* made (TRUE), or it has waited for the write lock until its timeout and
\* raises sqlite3.OperationalError (FALSE)
WriteOutcomes(w) ==
    IF ~Locked THEN {TRUE}
    ELSE IF w \in write_lock.timed_out THEN {}
    ELSE {FALSE}

\* one write of worker w outside log_activity, made or timed out
Wrote(w, done) ==
    /\ UNCHANGED <<user_activity, faults>>
    /\ write_lock' = IF done THEN write_lock
                     ELSE [write_lock EXCEPT !.timed_out = @ \cup {w}]

(* ------------------------------ routing -------------------------------- *)
\* user_state.get(uid, {}).get("step")
Step(u) == IF u \in DOMAIN user_state THEN user_state[u].step ELSE "None"

\* the handler filters that read the text only, in registration order: the
\* two registered before the step filters, and those registered after them
EarlyFilter(t) ==
    IF IsCommand(t, T_start) THEN "start"
    ELSE IF t \in RoleTexts THEN "choose_role"
    ELSE "None"

LateFilter(t) ==
    IF IsCommand(t, T_jobs) THEN "list_jobs_command"
    ELSE IF IsCommand(t, T_profile) THEN "profile_command"
    ELSE IF IsCommand(t, T_help) THEN "help_command"
    ELSE IF IsCommand(t, T_getid) THEN "get_id_command"
    ELSE IF IsCommand(t, T_dashboard) THEN "admin_dashboard"
    ELSE IF IsCommand(t, T_users) THEN "admin_users"
    ELSE IF IsCommand(t, T_alljobs) THEN "admin_all_jobs"
    ELSE IF IsCommand(t, T_viewuser) THEN "view_user_detail"
    ELSE IF StartsWith(t, T_ban_) \/ StartsWith(t, T_unban_) THEN "handle_ban_unban"
    ELSE IF IsCommand(t, T_dailyreport) THEN "daily_report"
    ELSE IF IsCommand(t, T_analytics) THEN "analytics"
    ELSE IF IsCommand(t, T_broadcast) THEN "broadcast_message"
    ELSE "handle_unknown"

\* the texts users send
FlowTexts == {T_start, T_freelancer, T_client, W_a, W_b, T_jobs}

\* ban and unban commands: ids as int() reads them (plain, signed, padded
\* with white space, with an underscore, in another script, too large for
\* the database) and texts that are no number
BanTexts ==
    {T_ban_ \o <<"2">>, T_unban_ \o <<"2">>, T_ban_ \o <<"x">>,
     T_ban_ \o <<"+", "2">>, T_unban_ \o <<" ", "2">>, T_ban_ \o <<"U+663">>,
     T_ban_ \o <<"0", "_", "2">>, T_ban_ \o <<"-", "2">>, T_ban_ \o <<"2", "\n">>,
     T_ban_ \o <<"U+9E8">>, T_ban_ \o <<"U+B", "2">>, T_ban_ \o <<"U+1C", "2">>,
     T_ban_ \o <<"9", "2", "2", "3", "3", "7", "2", "0", "3", "6", "8", "5", "4", "7", "7", "5", "8", "0", "8">>}

BroadcastTexts ==
    {T_broadcast, T_broadcast \o <<" ">> \o W_a, T_broadcast \o <<"\n">> \o W_a}

\* drafts with a colon and spaces, and one character longer than the preview
W_long == [i \in 1..(PreviewLen + 1) |-> IF i = PreviewLen + 1 THEN "z" ELSE "y"]

DraftTexts == {T_broadcast \o <<" ", "a", ":", "b", " ", ":", "c">>, T_broadcast \o <<" ">> \o W_long,
               T_broadcast \o <<" ", " ">> \o W_a}

ReportTexts ==
    {T_dashboard, T_users, T_alljobs, T_dailyreport, T_analytics,
     T_viewuser, T_viewuser \o <<" ", "2">>, T_viewuser \o <<" ", "x">>,
     T_viewuser \o <<" ", "-", "2">>, T_viewuser \o <<"\n", "U+662">>,
     T_viewuser \o <<"U+2003", "2">>, T_viewuser \o <<" ", "U+1D7D0">>,
     T_viewuser \o <<" ">> \o
        <<"9", "2", "2", "3", "3", "7", "2", "0", "3", "6", "8", "5", "4", "7", "7", "5", "8", "0", "8">>}

OtherTexts == {T_profile, T_help, T_getid, T_foo, T_getid \o <<"U+B", "x">>,
               T_start \o <<"U+1C", "x">>}

AllTexts ==
    FlowTexts \cup BanTexts \cup BroadcastTexts \cup DraftTexts \cup ReportTexts \cup OtherTexts

\* both filters of every text, computed once
FilterTable == [t \in AllTexts |-> [early |-> EarlyFilter(t), late |-> LateFilter(t)]]

\* the filters that read user_state, in registration order, and their handlers
StepOrder == <<"ask_skills", "ask_location", "job_title", "job_description", "job_budget">>

StepHandlers ==
    [ask_skills |-> "handle_skills", ask_location |-> "handle_location",
     job_title |-> "handle_job_title", job_description |-> "handle_job_description",
     job_budget |-> "handle_job_budget"]

\* the handlers with the commands registered before the step filters
Route_commands_first(step, t, k) ==
    IF FilterTable[t].late # "handle_unknown" THEN FilterTable[t].late
    ELSE IF \E j \in (k + 1)..Len(StepOrder) : StepOrder[j] = step THEN StepHandlers[step]
    ELSE "handle_unknown"

\* the first registered handler whose filter accepts text t of a user whose
\* entry is at `step`, the first k of the filters that read user_state having
\* declined (telebot tries the handlers in registration order and runs one)
Route(step, t, k) ==
    IF \E j \in (k + 1)..Len(StepOrder) : StepOrder[j] = step THEN StepHandlers[step]
    ELSE FilterTable[t].late

\* the first statement of each handler
FirstPc ==
    [start |-> "log", choose_role |-> "log", handle_skills |-> "log",
     handle_location |-> "log", handle_job_title |-> "state",
     handle_job_description |-> "description", handle_job_budget |-> "job_data",
     list_jobs_command |-> "log", profile_command |-> "log", help_command |-> "log",
     get_id_command |-> "send", admin_dashboard |-> "total_users",
     admin_users |-> "select", admin_all_jobs |-> "select",
     view_user_detail |-> "select", handle_ban_unban |-> "update",
     daily_report |-> "select", analytics |-> "select",
     broadcast_message |-> "send", handle_callback |-> "edit",
     handle_unknown |-> "log"]

\* a worker that enters handler h with update m
Enter(m, h, orphan) ==
    [IdleWorker EXCEPT !.msg = m, !.handler = h, !.pc = FirstPc[h], !.orphan = orphan]

(* --------------------------- worker threads ---------------------------- *)
\* worker w goes on to statement pc / returns from its handler
Goto(ws, w, pc) == [ws EXCEPT ![w].pc = pc]
Done(ws, w) == [ws EXCEPT ![w] = IdleWorker]

\* user_state[u] is bound to another dict or popped: the job_data of a handler
\* that read the old dict keeps referring to the old dict
Unalias(ws, u) ==
    [x \in Workers |->
        IF ws[x].msg.from_user = u /\ ws[x].live
        THEN [ws[x] EXCEPT !.live = FALSE] ELSE ws[x]]

\* the dict user_state[u] is changed in place to d: every job_data that refers
\* to it shows the change
Mutate(ws, u, d) ==
    [x \in Workers |->
        IF ws[x].msg.from_user = u /\ ws[x].live
        THEN [ws[x] EXCEPT !.job_data = d] ELSE ws[x]]

\* the handlers that write user_state
Writers == {"choose_role", "handle_skills", "handle_location", "handle_job_title",
            "handle_job_description", "handle_job_budget"}

\* another thread holds an update of the user whose update worker w holds, and
\* has not yet made all its writes to user_state
Racing(w) ==
    \E x \in Workers \ {w} :
        /\ workers[x].msg.from_user = workers[w].msg.from_user
        /\ workers[x].pc = "filter" \/ workers[x].handler \in Writers

\* the API calls a handler makes in a row, as they turn out when n more calls
\* can fail: every call succeeds, or one of them fails and raises, and those
\* after it are not made
AttemptsOf(calls, n) ==
    {calls} \cup
    (IF n > 0
     THEN {SubSeq(calls, 1, k - 1) \o <<[calls[k] EXCEPT !.ok = FALSE]>> : k \in 1..Len(calls)}
     ELSE {})

Attempts(calls) == AttemptsOf(calls, outages)

\* the last call made failed
Raised(made) == made # <<>> /\ ~made[Len(made)].ok

\* the number of calls that failed
Failures(made) == Cardinality({k \in 1..Len(made) : ~made[k].ok})

\* the runs of update_daily_metrics under way no longer see the tables and the
\* day of their first SELECT
Unclean(ms) ==
    [th \in MetricsThreads |->
        IF ms[th].pc = "idle" THEN ms[th] ELSE [ms[th] EXCEPT !.clean = FALSE]]

\* what every step writes next to its table writes: a change of users, jobs or
\* user_activity is noted in the runs of update_daily_metrics under way
Noted ==
    IF <<users', jobs', user_activity'>> = <<users, jobs, user_activity>>
    THEN UNCHANGED <<metrics, runs>>
    ELSE /\ metrics' = Unclean(metrics)
         /\ runs' = <<>>

\* the rows the step appends to user_activity for the caller of worker w
Appended(w) ==
    Cardinality({k \in (Len(user_activity) + 1)..Len(user_activity') :
                    user_activity'[k].user_id = workers[w].msg.from_user})

\* the rest of a statement of the handler worker w runs: the workers, the
\* dict and the confirmation messages after it, and the API calls made
Statement(w, ws, state, shown, made) ==
    /\ workers' = [ws EXCEPT ![w].logged =
                       IF ws[w].pc = "idle" THEN 0 ELSE workers[w].logged + Appended(w)]
    /\ user_state' = state
    /\ prompts' = shown
    /\ sent' = made
    /\ outages' = outages - Failures(made)
    /\ Noted
    /\ UNCHANGED <<ADMIN_ID, TZ, utc, today, daily_metrics, received, lost, restarts>>

\* the polling thread receives a text message of user u in chat c and hands it
\* to a free worker thread; the handlers whose filter reads the text only and
\* that are registered first are tested at once
receive(u, c, t) ==
    /\ received < MaxMessages
    /\ metrics["main"].pc = "idle"
    /\ \E w \in Workers :
        /\ workers[w].pc = "idle"
        /\ \A x \in 1..(w - 1) : workers[x].pc # "idle"
        /\ LET m == [from_user |-> u, chat |-> c, text |-> t, seq |-> received + 1]
               orphan == /\ u \in DOMAIN lost
                         /\ lost[u].step \in {"job_description", "job_budget"}
           IN  workers' = [workers EXCEPT ![w] =
                   IF FilterTable[t].early # "None"
                   THEN Enter(m, FilterTable[t].early, orphan)
                   ELSE [IdleWorker EXCEPT !.msg = m, !.pc = "filter", !.orphan = orphan]]
    /\ received' = received + 1
    /\ lost' = Pop(lost, u)
    /\ sent' = <<>>
    /\ UNCHANGED <<ADMIN_ID, TZ, utc, today, users, jobs, user_activity, daily_metrics, user_state,
                   prompts, metrics, faults, write_lock, outages, restarts, runs>>

\* worker w tests the filters that read user_state, then those of the commands
\* and the fallback, and enters the handler of the first filter that accepts;
\* each filter reads user_state on its own, and the reads are taken one step
\* at a time when another thread may write the entry in between
test_handlers(w) ==
    /\ workers[w].pc = "filter"
    /\ LET me == workers[w]
           u == me.msg.from_user
           t == me.msg.text
           k == me.tested
       IN  workers' = [workers EXCEPT ![w] =
               IF ~Racing(w) THEN Enter(me.msg, Route(Step(u), t, k), me.orphan)
               ELSE IF k = Len(StepOrder) THEN Enter(me.msg, FilterTable[t].late, me.orphan)
               ELSE IF Step(u) = StepOrder[k + 1]
                    THEN Enter(me.msg, StepHandlers[StepOrder[k + 1]], me.orphan)
               ELSE [me EXCEPT !.tested = k + 1]]
    /\ sent' = <<>>
    /\ UNCHANGED <<ADMIN_ID, TZ, utc, today, users, jobs, user_activity, daily_metrics, user_state,
                   prompts, metrics, received, faults, write_lock, outages, lost, restarts, runs>>

\* a user presses a button of confirmation message p, which still shows its
\* buttons: the callback query goes to a free worker thread (the filter of
\* handle_callback accepts every query)
callback_query(caller, p, data) ==
    /\ received < MaxMessages
    /\ metrics["main"].pc = "idle"
    /\ p \in 1..Len(prompts)
    /\ prompts[p].shown = "prompt"
    /\ prompts[p].chat \in {caller, GroupChat}
    /\ data \in {T_cancel, prompts[p].data}
    /\ \E w \in Workers :
        /\ workers[w].pc = "idle"
        /\ \A x \in 1..(w - 1) : workers[x].pc # "idle"
        /\ LET m == [from_user |-> caller, chat |-> prompts[p].chat, text |-> data,
                     seq |-> received + 1]
           IN  workers' = [workers EXCEPT ![w] =
                   [Enter(m, "handle_callback", FALSE) EXCEPT !.prompt = p]]
    /\ received' = received + 1
    /\ sent' = <<>>
    /\ UNCHANGED <<ADMIN_ID, TZ, utc, today, users, jobs, user_activity, daily_metrics, user_state,
                   prompts, metrics, faults, write_lock, outages, lost, restarts, runs>>

(* ------------------------- texts of the replies ------------------------ *)
T_NA == <<"N", "/", "A">>
T_NotSet == <<"N", "o", "t", " ", "s", "e", "t">>
T_dots == <<".", ".", ".">>

\* x or d
Or(x, d) == IF x = <<>> THEN d ELSE x

\* role.title()
Title(role) ==
    IF role = "freelancer" THEN <<"F", "r", "e", "e", "l", "a", "n", "c", "e", "r">>
    ELSE <<"C", "l", "i", "e", "n", "t">>

\* the role as it is written into a text
RoleText(role) ==
    IF role = "freelancer" THEN <<"f", "r", "e", "e", "l", "a", "n", "c", "e", "r">>
    ELSE <<"c", "l", "i", "e", "n", "t">>

(* ----------------------- conversation handlers ------------------------- *)
\* start: log, the admin notice for the admin, the welcome with the keyboard
start(w) ==
    /\ workers[w].handler = "start"
    /\ LET m == workers[w].msg
           calls == (IF is_admin(m.from_user)
                     THEN <<Out(m.chat, "admin_mode", <<>>, TRUE)>> ELSE <<>>)
                    \o <<Out(m.chat, "welcome", <<>>, TRUE)>>
       IN  \E ok \in LogOutcomes(w), made \in Attempts(calls) :
               /\ Logged(w, m.from_user, "start_command", <<"U", "s", "e", "r", " ", "s", "t", "a", "r", "t", "e", "d", " ", "b", "o", "t">>, ok)
               /\ UNCHANGED <<users, jobs>>
               /\ Statement(w, Done(workers, w), user_state, prompts, made)

\* choose_role that leaves an entry of user_state as it is
choose_role_keep_state(state, user_id, role) ==
    IF user_id \in DOMAIN state THEN state
    ELSE Put(state, user_id,
             [step |-> IF role = "freelancer" THEN "ask_skills" ELSE "job_title"])

\* user_state[user_id] = {"step": ...} of choose_role
choose_role_state(state, user_id, role) ==
    Put(state, user_id,
        [step |-> IF role = "freelancer" THEN "ask_skills" ELSE "job_title"])

\* choose_role: log_activity, save_user, then the entry of user_state and the
\* first question of the flow
choose_role(w) ==
    /\ workers[w].handler = "choose_role"
    /\ LET me == workers[w]
           m == me.msg
           user_id == m.from_user
           role == IF HasFreelancer(m.text) THEN "freelancer" ELSE "client"
       IN  CASE me.pc = "log" ->
                 \E ok \in LogOutcomes(w) :
                     /\ Logged(w, user_id, "role_selected",
                               <<"S", "e", "l", "e", "c", "t", "e", "d", " ", "r", "o", "l", "e", ":", " ">> \o RoleText(role), ok)
                     /\ UNCHANGED <<users, jobs>>
                     /\ Statement(w, Goto(workers, w, "save_user"), user_state, prompts, <<>>)
            [] me.pc = "save_user" ->
                 \E done \in WriteOutcomes(w) :
                     /\ users' = IF done THEN save_user(users, user_id, Username(user_id), role)
                                 ELSE users
                     /\ UNCHANGED jobs
                     /\ Wrote(w, done)
                     /\ Statement(w, IF done THEN Goto(workers, w, "state") ELSE Done(workers, w),
                                  user_state, prompts, <<>>)
            [] me.pc = "state" ->
                 \E made \in Attempts(<<Out(m.chat,
                        IF role = "freelancer" THEN "ask_skills" ELSE "ask_title",
                        <<>>, TRUE)>>) :
                     /\ UNCHANGED <<users, jobs>>
                     /\ NoLog
                     /\ Statement(w, Done(Unalias(workers, user_id), w),
                                  choose_role_state(user_state, user_id, role),
                                  prompts, made)

\* handle_skills in which a failed log_activity ends the handler
handle_skills_raising(w) ==
    /\ workers[w].handler = "handle_skills"
    /\ LET me == workers[w]
           m == me.msg
           user_id == m.from_user
       IN  CASE me.pc = "log" ->
                 \E ok \in LogOutcomes(w) :
                     /\ Logged(w, user_id, "set_skills",
                               <<"S", "k", "i", "l", "l", "s", ":", " ">> \o Prefix(m.text, SkillsLogLen), ok)
                     /\ UNCHANGED <<users, jobs>>
                     /\ Statement(w, IF ok THEN Goto(workers, w, "update") ELSE Done(workers, w),
                                  user_state, prompts, <<>>)
            [] me.pc = "update" ->
                 \E done \in WriteOutcomes(w) :
                     /\ users' = IF done THEN update_user(users, user_id, "skills", m.text)
                                 ELSE users
                     /\ UNCHANGED jobs
                     /\ Wrote(w, done)
                     /\ Statement(w, IF done THEN Goto(workers, w, "state") ELSE Done(workers, w),
                                  user_state, prompts, <<>>)
            [] me.pc = "state" ->
                 \E made \in Attempts(<<Out(m.chat, "ask_location", <<>>, TRUE)>>) :
                     /\ UNCHANGED <<users, jobs>>
                     /\ NoLog
                     /\ Statement(w, Done(Unalias(workers, user_id), w),
                                  Put(user_state, user_id, [step |-> "ask_location"]),
                                  prompts, made)

\* handle_skills: log_activity, the UPDATE of skills, then the entry of
\* user_state and the next question
handle_skills(w) ==
    /\ workers[w].handler = "handle_skills"
    /\ LET me == workers[w]
           m == me.msg
           user_id == m.from_user
       IN  CASE me.pc = "log" ->
                 \E ok \in LogOutcomes(w) :
                     /\ Logged(w, user_id, "set_skills",
                               <<"S", "k", "i", "l", "l", "s", ":", " ">> \o Prefix(m.text, SkillsLogLen), ok)
                     /\ UNCHANGED <<users, jobs>>
                     /\ Statement(w, Goto(workers, w, "update"), user_state, prompts, <<>>)
            [] me.pc = "update" ->
                 \E done \in WriteOutcomes(w) :
                     /\ users' = IF done THEN update_user(users, user_id, "skills", m.text)
                                 ELSE users
                     /\ UNCHANGED jobs
                     /\ Wrote(w, done)
                     /\ Statement(w, IF done THEN Goto(workers, w, "state") ELSE Done(workers, w),
                                  user_state, prompts, <<>>)
            [] me.pc = "state" ->
                 \E made \in Attempts(<<Out(m.chat, "ask_location", <<>>, TRUE)>>) :
                     /\ UNCHANGED <<users, jobs>>
                     /\ NoLog
                     /\ Statement(w, Done(Unalias(workers, user_id), w),
                                  Put(user_state, user_id, [step |-> "ask_location"]),
                                  prompts, made)

\* handle_location: log_activity, the UPDATE of location, then the pop of the
\* entry of user_state and the closing message
handle_location(w) ==
    /\ workers[w].handler = "handle_location"
    /\ LET me == workers[w]
           m == me.msg
           user_id == m.from_user
       IN  CASE me.pc = "log" ->
                 \E ok \in LogOutcomes(w) :
                     /\ Logged(w, user_id, "set_location", <<"L", "o", "c", "a", "t", "i", "o", "n", ":", " ">> \o m.text, ok)
                     /\ UNCHANGED <<users, jobs>>
                     /\ Statement(w, Goto(workers, w, "update"), user_state, prompts, <<>>)
            [] me.pc = "update" ->
                 \E done \in WriteOutcomes(w) :
                     /\ users' = IF done THEN update_user(users, user_id, "location", m.text)
                                 ELSE users
                     /\ UNCHANGED jobs
                     /\ Wrote(w, done)
                     /\ Statement(w, IF done THEN Goto(workers, w, "state") ELSE Done(workers, w),
                                  user_state, prompts, <<>>)
            [] me.pc = "state" ->
                 \E made \in Attempts(<<Out(m.chat, "profile_complete", <<>>, TRUE)>>) :
                     /\ UNCHANGED <<users, jobs>>
                     /\ NoLog
                     /\ Statement(w, Done(Unalias(workers, user_id), w),
                                  Pop(user_state, user_id), prompts, made)

\* handle_job_title that stores nothing for a banned user
handle_job_title_unless_banned(w) ==
    /\ workers[w].handler = "handle_job_title"
    /\ LET m == workers[w].msg
           user_id == m.from_user
           banned == user_id \in DOMAIN users /\ users[user_id].is_banned = 1
       IN  \E made \in Attempts(<<Out(m.chat, "ask_description", <<>>, TRUE)>>) :
               /\ UNCHANGED <<users, jobs>>
               /\ NoLog
               /\ Statement(w, Done(Unalias(workers, user_id), w),
                            IF banned THEN user_state
                            ELSE Put(user_state, user_id,
                                     [step |-> "job_description", title |-> m.text]),
                            prompts, made)

\* handle_job_title: the entry of user_state with the title, and the next
\* question
handle_job_title(w) ==
    /\ workers[w].handler = "handle_job_title"
    /\ LET m == workers[w].msg
           user_id == m.from_user
       IN  \E made \in Attempts(<<Out(m.chat, "ask_description", <<>>, TRUE)>>) :
               /\ UNCHANGED <<users, jobs>>
               /\ NoLog
               /\ Statement(w, Done(Unalias(workers, user_id), w),
                            Put(user_state, user_id,
                                [step |-> "job_description", title |-> m.text]),
                            prompts, made)

\* the statement worker w is at raises KeyError: it reads user_state[user_id]
\* and the entry is gone, or it reads a key the dict does not hold
KeyError(w) ==
    LET me == workers[w]
        user_id == me.msg.from_user
    IN  \/ /\ me.handler = "handle_job_description"
           /\ user_id \notin DOMAIN user_state
        \/ /\ me.handler = "handle_job_budget"
           /\ \/ me.pc = "job_data" /\ user_id \notin DOMAIN user_state
              \/ me.pc = "log" /\ "title" \notin DOMAIN me.job_data
              \/ me.pc = "create_job" /\ "description" \notin DOMAIN me.job_data

\* handle_job_description: two writes into the dict user_state[user_id]
\* (description, then step), each of which looks the entry up, and the next
\* question
handle_job_description(w) ==
    /\ workers[w].handler = "handle_job_description"
    /\ LET me == workers[w]
           m == me.msg
           user_id == m.from_user
       IN  IF KeyError(w)
           THEN /\ UNCHANGED <<users, jobs>>
                /\ NoLog
                /\ Statement(w, Done(workers, w), user_state, prompts, <<>>)
           ELSE CASE me.pc = "description" ->
                     LET d == Put(user_state[user_id], "description", m.text)
                     IN  /\ UNCHANGED <<users, jobs>>
                         /\ NoLog
                         /\ Statement(w, Goto(Mutate(workers, user_id, d), w, "step"),
                                      [user_state EXCEPT ![user_id] = d], prompts, <<>>)
                  [] me.pc = "step" ->
                     LET d == Put(user_state[user_id], "step", "job_budget")
                     IN  \E made \in Attempts(<<Out(m.chat, "ask_budget", <<>>, TRUE)>>) :
                             /\ UNCHANGED <<users, jobs>>
                             /\ NoLog
                             /\ Statement(w, Done(Mutate(workers, user_id, d), w),
                                          [user_state EXCEPT ![user_id] = d], prompts, made)

\* a fan-out that calls log_activity whether the send raised or not
notify_log_always(delivered) == TRUE

\* the fan-out calls log_activity after a send that did not raise
notify_log(delivered) == delivered

\* handle_job_budget: job_data = user_state[user_id]; log_activity; create_job;
\* the pop of the entry and the confirmation; get_freelancers; then for each
\* freelancer fetched one send_message and, when it did not raise, one
\* log_activity.  A write that times out on the locked database ends the
\* handler (sqlite3.OperationalError)
handle_job_budget(w) ==
    /\ workers[w].handler = "handle_job_budget"
    /\ LET me == workers[w]
           m == me.msg
           user_id == m.from_user
           job_data == me.job_data
       IN  IF KeyError(w)
           THEN /\ UNCHANGED <<users, jobs>>
                /\ NoLog
                /\ Statement(w, Done(workers, w), user_state, prompts, <<>>)
           ELSE CASE me.pc = "job_data" ->
                     /\ UNCHANGED <<users, jobs>>
                     /\ NoLog
                     /\ Statement(w, [workers EXCEPT ![w].job_data = user_state[user_id],
                                                  ![w].live = TRUE, ![w].pc = "log"],
                                  user_state, prompts, <<>>)
                  [] me.pc = "log" ->
                     \E ok \in LogOutcomes(w) :
                         /\ Logged(w, user_id, "post_job",
                                   <<"J", "o", "b", ":", " ">> \o Prefix(job_data.title, TitleLogLen) \o T_dots, ok)
                         /\ UNCHANGED <<users, jobs>>
                         /\ Statement(w, Goto(workers, w, "create_job"), user_state, prompts, <<>>)
                  [] me.pc = "create_job" ->
                     \E done \in WriteOutcomes(w) :
                         /\ jobs' = IF done THEN create_job(jobs, user_id, job_data.title,
                                                            job_data.description, m.text)
                                    ELSE jobs
                         /\ UNCHANGED users
                         /\ Wrote(w, done)
                         /\ Statement(w, IF done
                                      THEN [workers EXCEPT ![w].job_id = Len(jobs) + 1,
                                                           ![w].pc = "pop"]
                                      ELSE Done(workers, w),
                                      user_state, prompts, <<>>)
                  [] me.pc = "pop" ->
                     \E made \in Attempts(<<Out(m.chat, "job_posted",
                             <<job_data.title, m.text, ToStr(me.job_id)>>, TRUE)>>) :
                         /\ UNCHANGED <<users, jobs>>
                         /\ NoLog
                         /\ Statement(w, IF Raised(made)
                                      THEN Done(Unalias(workers, user_id), w)
                                      ELSE Goto(Unalias(workers, user_id), w, "freelancers"),
                                      Pop(user_state, user_id), prompts, made)
                  [] me.pc = "freelancers" ->
                     LET freelancers == get_freelancers(users)
                     IN  /\ UNCHANGED <<users, jobs>>
                         /\ NoLog
                         /\ Statement(w, IF freelancers = <<>> THEN Done(workers, w)
                                      ELSE [workers EXCEPT ![w].fetched = freelancers,
                                                           ![w].i = 1, ![w].pc = "notify"],
                                      user_state, prompts, <<>>)
                  [] me.pc = "notify" ->
                     \E made \in Attempts(<<Out(me.fetched[me.i], "new_job",
                                 <<job_data.title, m.text>>, TRUE)>>) :
                         /\ UNCHANGED <<users, jobs>>
                         /\ NoLog
                         /\ Statement(w, IF notify_log(made[1].ok) THEN Goto(workers, w, "notified")
                                      ELSE IF me.i = Len(me.fetched) THEN Done(workers, w)
                                      ELSE [workers EXCEPT ![w].i = me.i + 1],
                                      user_state, prompts, made)
                  [] me.pc = "notified" ->
                     \E ok \in LogOutcomes(w) :
                         /\ Logged(w, me.fetched[me.i], "job_notification",
                                   <<"N", "o", "t", "i", "f", "i", "e", "d", " ", "a", "b", "o", "u", "t", " ",
                                     "j", "o", "b", " ", "#">> \o ToStr(me.job_id), ok)
                         /\ UNCHANGED <<users, jobs>>
                         /\ Statement(w, IF me.i = Len(me.fetched) THEN Done(workers, w)
                                      ELSE [workers EXCEPT ![w].i = me.i + 1, ![w].pc = "notify"],
                                      user_state, prompts, <<>>)
(* --------------------------- user commands ----------------------------- *)
\* list_jobs_command: log_activity, then get_jobs and the list
list_jobs_command(w) ==
    /\ workers[w].handler = "list_jobs_command"
    /\ LET me == workers[w]
           m == me.msg
           listed == get_jobs(jobs)
       IN  CASE me.pc = "log" ->
                 \E ok \in LogOutcomes(w) :
                     /\ Logged(w, m.from_user, "view_jobs", <<"B", "r", "o", "w", "s", "e", "d", " ", "j", "o", "b", " ", "l", "i", "s", "t", "i", "n", "g", "s">>, ok)
                     /\ UNCHANGED <<users, jobs>>
                     /\ Statement(w, Goto(workers, w, "get_jobs"), user_state, prompts, <<>>)
            [] me.pc = "get_jobs" ->
                 \E made \in Attempts(<<
                        IF listed = <<>> THEN Out(m.chat, "no_jobs", <<>>, TRUE)
                        ELSE Out(m.chat, "jobs",
                                 [k \in 1..Len(listed) |->
                                     <<ToStr(listed[k]), jobs[listed[k]].title,
                                       jobs[listed[k]].budget, ToStr(jobs[listed[k]].created)>>],
                                 TRUE)>>) :
                     /\ UNCHANGED <<users, jobs>>
                     /\ NoLog
                     /\ Statement(w, Done(workers, w), user_state, prompts, made)

\* profile_command: log_activity, then the SELECT of the caller's row and
\* the profile or "Profile not found"
profile_command(w) ==
    /\ workers[w].handler = "profile_command"
    /\ LET me == workers[w]
           m == me.msg
           user_id == m.from_user
       IN  CASE me.pc = "log" ->
                 \E ok \in LogOutcomes(w) :
                     /\ Logged(w, user_id, "view_profile", <<"V", "i", "e", "w", "e", "d", " ", "o", "w", "n", " ", "p", "r", "o", "f", "i", "l", "e">>, ok)
                     /\ UNCHANGED <<users, jobs>>
                     /\ Statement(w, Goto(workers, w, "select"), user_state, prompts, <<>>)
            [] me.pc = "select" ->
                 \E made \in Attempts(<<
                        IF user_id \notin DOMAIN users
                        THEN Out(m.chat, "profile_not_found", <<>>, TRUE)
                        ELSE Out(m.chat, "profile",
                                 <<Or(users[user_id].username, T_NA), Title(users[user_id].role),
                                   Or(users[user_id].skills, T_NotSet),
                                   Or(users[user_id].location, T_NotSet)>>, TRUE)>>) :
                     /\ UNCHANGED <<users, jobs>>
                     /\ NoLog
                     /\ Statement(w, Done(workers, w), user_state, prompts, made)

\* help_command: log_activity and the help text
help_command(w) ==
    /\ workers[w].handler = "help_command"
    /\ LET m == workers[w].msg
       IN  \E ok \in LogOutcomes(w), made \in Attempts(<<Out(m.chat, "help", <<>>, TRUE)>>) :
               /\ Logged(w, m.from_user, "view_help", <<"V", "i", "e", "w", "e", "d", " ", "h", "e", "l", "p">>, ok)
               /\ UNCHANGED <<users, jobs>>
               /\ Statement(w, Done(workers, w), user_state, prompts, made)

\* get_id_command: the caller's id and username, and a note for the admin
get_id_command(w) ==
    /\ workers[w].handler = "get_id_command"
    /\ LET m == workers[w].msg
           user_id == m.from_user
           calls == <<Out(m.chat, "id",
                          <<ToStr(user_id), Or(Username(user_id),
                             <<"N", "o", " ", "u", "s", "e", "r", "n", "a", "m", "e">>)>>, TRUE)>>
                    \o (IF ADMIN_ID # 0 /\ ToStr(user_id) = ToStr(ADMIN_ID)
                        THEN <<Out(m.chat, "admin_note", <<ToStr(user_id)>>, TRUE)>>
                        ELSE <<>>)
       IN  \E made \in Attempts(calls) :
               /\ UNCHANGED <<users, jobs>>
               /\ NoLog
               /\ Statement(w, Done(workers, w), user_state, prompts, made)

\* handle_unknown that answers every text
handle_unknown_reply(t) == TRUE

\* handle_unknown answers a text that starts with '/'
handle_unknown_replies(t) == StartsWith(t, <<"/">>)

\* handle_unknown: log_activity, and the list of commands for a text that
\* starts with '/'
handle_unknown(w) ==
    /\ workers[w].handler = "handle_unknown"
    /\ LET m == workers[w].msg
           calls == IF handle_unknown_replies(m.text)
                    THEN <<Out(m.chat, "unknown_command", <<>>, TRUE)>> ELSE <<>>
       IN  \E ok \in LogOutcomes(w), made \in Attempts(calls) :
               /\ Logged(w, m.from_user, "unknown_command", Prefix(m.text, UnknownLogLen), ok)
               /\ UNCHANGED <<users, jobs>>
               /\ Statement(w, Done(workers, w), user_state, prompts, made)

(* ---------------------------- admin reports ---------------------------- *)
\* the statements of the report handlers write no table
ReadOnly(w, ws, made) ==
    /\ UNCHANGED <<users, jobs>>
    /\ NoLog
    /\ Statement(w, ws, user_state, prompts, made)

\* the rows of chronological list L in the order of ORDER BY timestamp DESC,
\* C being the places of L after which the second changes: later seconds
\* first, and the rows of one second in the order they were inserted
TimeOrdered(L, C) ==
    LET group(j) == Cardinality({c \in C : c < j})
        place(j) == 1 + Cardinality({k \in 1..Len(L) :
                        \/ group(k) > group(j)
                        \/ group(k) = group(j) /\ k < j})
    IN  [p \in 1..Len(L) |-> L[CHOOSE j \in 1..Len(L) : place(j) = p]]

\* the orders ORDER BY timestamp DESC can give the rows of L: the model keeps
\* the day of a timestamp, so rows of one day may or may not share a second
TimeOrders(L) ==
    {TimeOrdered(L, C) :
        C \in {D \in SUBSET (1..(Len(L) - 1)) :
                  \A j \in 1..(Len(L) - 1) : L[j].timestamp # L[j + 1].timestamp => j \in D}}

\* the orders ORDER BY created DESC can give the users in S: a later day
\* first, the users of one day in any order of their seconds
UserOrders(S) ==
    {o \in [1..Cardinality(S) -> S] :
        /\ \A a, b \in 1..Cardinality(S) : a # b => o[a] # o[b]
        /\ \A a, b \in 1..Cardinality(S) : a < b => users[o[a]].created >= users[o[b]].created}

\* the numbers COUNT(DISTINCT user_id) ... WHERE timestamp > five_min_ago can
\* give.  five_min_ago is local time and the timestamps are UTC: on a host
\* ahead of UTC no timestamp is later; otherwise the events counted are the
\* last few events, none of them older than the day before the local day and
\* every one of a day after the local day among them
ActiveNow ==
    {Cardinality({user_activity[k].user_id : k \in (Len(user_activity) - n + 1)..Len(user_activity)}) :
        n \in {x \in 0..Len(user_activity) :
                  /\ TZ = "ahead" => x = 0
                  /\ \A k \in 1..Len(user_activity) :
                        /\ k > Len(user_activity) - x => user_activity[k].timestamp >= today - 1
                        /\ user_activity[k].timestamp > today => k > Len(user_activity) - x}}

DashboardLimit == 10
UserListLimit == 20
JobListAllLimit == 15
DetailLimit == 10
DetailLogLen == 30
SkillsListLen == 30

\* admin_dashboard: "Admin access required" for another caller; five counts
\* and the recent activities, each a SELECT of its own, then the dashboard.
\* The rows of today are those whose UTC day of creation is the local day
admin_dashboard(w) ==
    /\ workers[w].handler = "admin_dashboard"
    /\ LET me == workers[w]
           m == me.msg
           Fetch(v, pc) == ReadOnly(w, [workers EXCEPT ![w].fetched = Append(@, v),
                                                    ![w].pc = pc], <<>>)
           joined == SelectSeq(user_activity,
                         LAMBDA e : e.user_id \in DOMAIN users /\ users[e.user_id].is_banned = 0)
       IN  CASE me.pc = "total_users" ->
                 IF ~is_admin(m.from_user)
                 THEN \E made \in Attempts(<<Out(m.chat, "admin_required", <<>>, TRUE)>>) :
                          ReadOnly(w, Done(workers, w), made)
                 ELSE Fetch(Cardinality({u \in DOMAIN users : users[u].is_banned = 0}),
                            "total_jobs")
            [] me.pc = "total_jobs" ->
                 ReadOnly(w, [workers EXCEPT ![w].fetched = Append(@, Len(jobs)),
                                          ![w].today = today,
                                          ![w].pc = "new_users_today"], <<>>)
            [] me.pc = "new_users_today" ->
                 Fetch(Cardinality({u \in DOMAIN users :
                           users[u].created = me.today /\ users[u].is_banned = 0}),
                       "new_jobs_today")
            [] me.pc = "new_jobs_today" ->
                 Fetch(Cardinality({j \in 1..Len(jobs) : jobs[j].created = me.today}),
                       "active_now")
            [] me.pc = "active_now" ->
                 \E n \in ActiveNow : Fetch(n, "recent_activities")
            [] me.pc = "recent_activities" ->
                 \E recent \in TimeOrders(joined) :
                     \E made \in Attempts(<<Out(m.chat, "dashboard",
                            [counts |-> me.fetched,
                             activities |->
                                 [k \in 1..Min(Len(recent), DashboardLimit) |->
                                     <<Or(users[recent[k].user_id].username, T_NA),
                                       recent[k].action>>]], TRUE)>>) :
                         ReadOnly(w, Done(workers, w), made)

\* admin_users: the users that are not banned, newest first, at most 20
admin_users(w) ==
    /\ workers[w].handler = "admin_users"
    /\ LET m == workers[w].msg
       IN  IF ~is_admin(m.from_user) THEN ReadOnly(w, Done(workers, w), <<>>)
           ELSE \E o \in UserOrders({u \in DOMAIN users : users[u].is_banned = 0}) :
                  LET listed == Prefix(o, UserListLimit)
                  IN  \E made \in Attempts(<<
                             IF listed = <<>> THEN Out(m.chat, "no_users", <<>>, TRUE)
                             ELSE Out(m.chat, "users",
                                      [rows |-> [k \in 1..Len(listed) |->
                                           <<ToStr(listed[k]),
                                             Or(users[listed[k]].username, T_NA),
                                             Title(users[listed[k]].role),
                                             IF users[listed[k]].skills = <<>> THEN T_NA
                                             ELSE Prefix(users[listed[k]].skills, SkillsListLen),
                                             Or(users[listed[k]].location, T_NA),
                                             ToStr(users[listed[k]].created)>>],
                                       total |-> Len(listed)], TRUE)>>) :
                          ReadOnly(w, Done(workers, w), made)

\* admin_all_jobs: the jobs with the username of their client, newest first,
\* at most 15
admin_all_jobs(w) ==
    /\ workers[w].handler = "admin_all_jobs"
    /\ LET m == workers[w].msg
           listed == Prefix(Descending(1..Len(jobs)), JobListAllLimit)
       IN  IF ~is_admin(m.from_user) THEN ReadOnly(w, Done(workers, w), <<>>)
           ELSE \E made \in Attempts(<<
                      IF listed = <<>> THEN Out(m.chat, "no_jobs_posted", <<>>, TRUE)
                      ELSE Out(m.chat, "alljobs",
                               [k \in 1..Len(listed) |->
                                   LET j == jobs[listed[k]]
                                   IN  <<ToStr(listed[k]), j.title, j.budget, j.status,
                                         IF j.client_id \in DOMAIN users
                                         THEN Or(users[j.client_id].username, T_NA) ELSE T_NA,
                                         ToStr(j.created)>>], TRUE)>>) :
                    ReadOnly(w, Done(workers, w), made)

\* view_user_detail that builds the detail page for an id without a row
\* view_user_detail: the id is the second word of the text read by int();
\* the row of that id, the number of jobs and the last activities, each a
\* SELECT of its own, then the detail page.  An id outside the INTEGER of
\* sqlite raises OverflowError at the first SELECT, which nothing catches
view_user_detail(w) ==
    /\ workers[w].handler = "view_user_detail"
    /\ LET me == workers[w]
           m == me.msg
           parts == SplitWS(m.text)
           user_id == UserId(IntOf(parts[2]))
           mine == SelectSeq(user_activity, LAMBDA e : e.user_id = user_id)
           Reply(kind, body) ==
               \E made \in Attempts(<<Out(m.chat, kind, body, TRUE)>>) :
                   ReadOnly(w, Done(workers, w), made)
       IN  CASE me.pc = "select" ->
                 IF ~is_admin(m.from_user) THEN ReadOnly(w, Done(workers, w), <<>>)
                 ELSE IF Len(parts) < 2 THEN Reply("usage_viewuser", <<>>)
                 ELSE IF ~IntOk(parts[2]) THEN Reply("invalid_id", <<>>)
                 ELSE IF TooLarge(IntOf(parts[2])) THEN ReadOnly(w, Done(workers, w), <<>>)
                 ELSE IF user_id \notin DOMAIN users
                      THEN Reply("user_not_found", <<IntOf(parts[2])>>)
                 ELSE ReadOnly(w, [workers EXCEPT
                          ![w].fetched = <<users[user_id]>>,
                          ![w].pc = "jobs_posted"], <<>>)
            [] me.pc = "jobs_posted" ->
                 ReadOnly(w, [workers EXCEPT
                     ![w].fetched = Append(@, Cardinality({j \in 1..Len(jobs) :
                                                  jobs[j].client_id = user_id})),
                     ![w].pc = "activities"], <<>>)
            [] me.pc = "activities" ->
                 \E recent \in TimeOrders(mine) :
                     Reply("user_detail",
                           [user_id |-> IntOf(parts[2]),
                            username |-> Or(me.fetched[1].username, T_NA),
                            role |-> Title(me.fetched[1].role),
                            skills |-> Or(me.fetched[1].skills, T_NA),
                            location |-> Or(me.fetched[1].location, T_NA),
                            banned |-> me.fetched[1].is_banned # 0,
                            joined |-> ToStr(me.fetched[1].created),
                            jobs_posted |-> me.fetched[2],
                            activities |->
                                [k \in 1..Min(Len(recent), DetailLimit) |->
                                    <<recent[k].action,
                                      Prefix(recent[k].details, DetailLogLen)>>]])

\* the rows of daily_metrics of date d
MetricsOf(d) == SelectSeq(daily_metrics, LAMBDA r : r.date = d)

\* daily_report: the row of yesterday, or "No data"
daily_report(w) ==
    /\ workers[w].handler = "daily_report"
    /\ LET m == workers[w].msg
           yesterday == today - 1
           found == MetricsOf(yesterday)
       IN  IF ~is_admin(m.from_user) THEN ReadOnly(w, Done(workers, w), <<>>)
           ELSE \E made \in Attempts(<<
                      IF found = <<>> THEN Out(m.chat, "no_data", <<ToStr(yesterday)>>, TRUE)
                      ELSE Out(m.chat, "daily_report", found[1], TRUE)>>) :
                    ReadOnly(w, Done(workers, w), made)

\* f"{total / n:.1f}" in tenths.  total / n is the double next to the
\* quotient, and the format rounds the double to the nearest tenth.  When the
\* quotient lies halfway between two tenths, as a / 20 with a odd, the double
\* is the quotient if 5 divides a, and the tie goes to the even tenth; if not,
\* the double lies below or above the quotient as the 53 bits of its
\* mantissa are rounded, 2^e being the power of two next below the quotient
Tenths(total, n) ==
    LET q == (10 * total) \div n
        r == (10 * total) % n
        a == 2 * q + 1
        RECURSIVE Under(_)
        Under(k) == IF a * 2^k >= 20 THEN k ELSE Under(k + 1)
        RECURSIVE Over(_)
        Over(k) == IF 20 * 2^(k + 1) > a THEN k ELSE Over(k + 1)
        e == IF a >= 20 THEN Over(0) ELSE 0 - Under(1)
        above == (a * <<1, 2, 4, 3>>[((50 - e) % 4) + 1]) % 5 >= 3
    IN  IF 2 * r < n THEN q
        ELSE IF 2 * r > n THEN q + 1
        ELSE IF a % 5 = 0 THEN (IF q % 2 = 0 THEN q ELSE q + 1)
        ELSE IF above THEN q + 1 ELSE q

\* sum(day[...] for day in trends)
RECURSIVE Sum(_, _)
Sum(rows, col) == IF rows = <<>> THEN 0 ELSE rows[1][col] + Sum(Tail(rows), col)

AnalyticsDays == 7

\* analytics: the rows of the last seven days in the order of their dates,
\* the totals and the averages, or "No analytics data"
analytics(w) ==
    /\ workers[w].handler = "analytics"
    /\ LET m == workers[w].msg
           dates == {daily_metrics[k].date : k \in 1..Len(daily_metrics)}
           since == Ascending({d \in dates : d >= today - AnalyticsDays})
           trends == [k \in 1..Len(since) |-> MetricsOf(since[k])[1]]
           cols == <<"new_users", "new_jobs", "active_users">>
       IN  IF ~is_admin(m.from_user) THEN ReadOnly(w, Done(workers, w), <<>>)
           ELSE \E made \in Attempts(<<
                      IF trends = <<>> THEN Out(m.chat, "no_analytics", <<>>, TRUE)
                      ELSE Out(m.chat, "analytics",
                               [days |-> trends,
                                totals |-> [c \in 1..3 |-> Sum(trends, cols[c])],
                                averages |-> [c \in 1..3 |->
                                    Tenths(Sum(trends, cols[c]), Len(trends))]], TRUE)>>) :
                    ReadOnly(w, Done(workers, w), made)

(* --------------------------- ban and unban ----------------------------- *)
\* handle_ban_unban: command and id are the first two fields of the text cut
\* at '_', the id read by int().  The UPDATE takes the write lock of the
\* database and is not committed yet: the other connections read the old
\* rows and wait with their writes.  log_activity, on a connection of its
\* own, waits for that lock until its timeout and fails; then the commit,
\* which makes the UPDATE visible and releases the lock; then the SELECT of
\* the username and the answer.  Whatever is raised (ValueError of int(),
\* OverflowError of an id outside the INTEGER of sqlite, OperationalError of
\* an UPDATE that timed out on the lock of another ban, a failed send) is
\* answered with "Error" and its text
handle_ban_unban(w) ==
    /\ workers[w].handler = "handle_ban_unban"
    /\ LET me == workers[w]
           m == me.msg
           parts == SplitOn(m.text, "_")
           command == parts[1]
           user_id == UserId(IntOf(parts[2]))
           action == IF command = <<"/", "b", "a", "n">> THEN "banned" ELSE "unbanned"
           T_TooLarge ==
               <<"P", "y", "t", "h", "o", "n", " ", "i", "n", "t", " ", "t", "o", "o", " ",
                 "l", "a", "r", "g", "e", " ", "t", "o", " ", "c", "o", "n", "v", "e", "r", "t",
                 " ", "t", "o", " ", "S", "Q", "L", "i", "t", "e", " ",
                 "I", "N", "T", "E", "G", "E", "R">>
           T_Locked == <<"d", "a", "t", "a", "b", "a", "s", "e", " ", "i", "s", " ", "l", "o", "c", "k", "e", "d">>
           Error(body) ==
               \E made \in Attempts(<<Out(m.chat, "error", body, TRUE)>>) :
                   /\ UNCHANGED <<users, jobs>>
                   /\ Statement(w, Done(workers, w), user_state, prompts, made)
       IN  CASE me.pc = "update" ->
                 IF ~is_admin(m.from_user)
                 THEN /\ UNCHANGED <<users, jobs>>
                      /\ NoLog
                      /\ Statement(w, Done(workers, w), user_state, prompts, <<>>)
                 ELSE IF ~IntOk(parts[2]) THEN NoLog /\ Error(parts[2])
                 ELSE IF TooLarge(IntOf(parts[2])) THEN NoLog /\ Error(T_TooLarge)
                 ELSE \E done \in WriteOutcomes(w) :
                          IF ~done THEN Wrote(w, done) /\ Error(T_Locked)
                          ELSE /\ write_lock' = [holder |-> w, timed_out |-> {}]
                               /\ UNCHANGED <<users, jobs, user_activity, faults>>
                               /\ Statement(w, Goto(workers, w, "commit"), user_state, prompts, <<>>)
            [] me.pc = "commit" ->
                 /\ users' = update_user(users, user_id, "is_banned",
                                         IF action = "banned" THEN 1 ELSE 0)
                 /\ UNCHANGED jobs
                 /\ user_activity' =
                        log_activity(user_activity, user_id,
                            IF action = "banned" THEN "user_banned" ELSE "user_unbanned",
                            (IF action = "banned" THEN <<"B", "a", "n", "n", "e", "d", " ", "b", "y", " ", "a", "d", "m", "i", "n", " ">>
                             ELSE <<"U", "n", "b", "a", "n", "n", "e", "d", " ", "b", "y", " ", "a", "d", "m", "i", "n", " ">>) \o ToStr(m.from_user),
                            FALSE)
                 /\ UNCHANGED faults
                 /\ write_lock' = [holder |-> 0, timed_out |-> {}]
                 /\ Statement(w, Goto(workers, w, "username"), user_state, prompts, <<>>)
            [] me.pc = "username" ->
                 LET username == IF user_id \in DOMAIN users
                                 THEN users[user_id].username
                                 ELSE <<"U", "n", "k", "n", "o", "w", "n">>
                 IN  \E made \in Attempts(<<Out(m.chat, "ban_result",
                                <<username, IntOf(parts[2]), action>>, TRUE)>>) :
                       \E again \in IF Raised(made)
                                    THEN {made \o x : x \in
                                            AttemptsOf(<<Out(m.chat, "error", <<>>, TRUE)>>,
                                                       outages - 1)}
                                    ELSE {made} :
                           /\ UNCHANGED <<users, jobs>>
                           /\ NoLog
                           /\ Statement(w, Done(workers, w), user_state, prompts, again)

(* ----------------------------- broadcast ------------------------------- *)
\* a confirmation message that sends the draft to the users that are not
\* banned as soon as it is made
confirmation_prompt_eager(chat, broadcast_text) ==
    <<Out(chat, "confirmation", Prefix(broadcast_text, PreviewLen) \o T_dots, TRUE)>>
    \o [k \in 1..Len(get_active_users(users)) |->
           Out(get_active_users(users)[k], "announcement", broadcast_text, TRUE)]

\* the confirmation message of broadcast_message: the preview of the draft
\* with the two buttons
confirmation_prompt(chat, broadcast_text) ==
    <<Out(chat, "confirmation", Prefix(broadcast_text, PreviewLen) \o T_dots, TRUE)>>

\* a callback token that carries the preview of the draft
callback_token_preview(broadcast_text) == T_confirm \o Prefix(broadcast_text, PreviewLen)

\* callback_data of the confirm button: f"confirm_broadcast:{broadcast_text}"
callback_token(broadcast_text) == T_confirm \o broadcast_text

\* call.data.split(':', 1)[1]
token_text(data) == SplitOnce(data, ":")[2]

\* broadcast_message: the usage text for a command without a second word; the
\* draft is what follows the first blank (IndexError when there is none); the
\* confirmation message with the draft in the token of its confirm button
broadcast_message(w) ==
    /\ workers[w].handler = "broadcast_message"
    /\ LET m == workers[w].msg
           fields == SplitOnce(m.text, " ")
           broadcast_text == fields[2]
           Plain(made) ==
               /\ UNCHANGED <<users, jobs>>
               /\ NoLog
               /\ Statement(w, Done(workers, w), user_state, prompts, made)
       IN  IF ~is_admin(m.from_user) THEN Plain(<<>>)
           ELSE IF Len(SplitWS(m.text)) < 2
           THEN \E made \in Attempts(<<Out(m.chat, "usage_broadcast", <<>>, TRUE)>>) : Plain(made)
           ELSE IF Len(fields) < 2 THEN Plain(<<>>)
           ELSE \E made \in Attempts(confirmation_prompt(m.chat, broadcast_text)) :
                    /\ UNCHANGED <<users, jobs>>
                    /\ NoLog
                    /\ Statement(w, Done(workers, w), user_state,
                                 IF made[1].ok
                                 THEN Append(prompts, [chat |-> m.chat, shown |-> "prompt",
                                                       data |-> callback_token(broadcast_text)])
                                 ELSE prompts,
                                 made)

\* the broadcast loop that ends at the first delivery that fails
delivered_abort(me, ok) ==
    [me EXCEPT !.i = IF ok THEN @ + 1 ELSE Len(me.fetched),
               !.sent_count = IF ok THEN @ + 1 ELSE @,
               !.failed_count = IF ok THEN @ ELSE @ + 1,
               !.pc = IF ok /\ me.i + 1 < Len(me.fetched) THEN "send" ELSE "report"]

\* one turn of the broadcast loop: sent_count or failed_count counts the
\* delivery, and the loop goes on to the next user fetched
delivered(me, ok) ==
    [me EXCEPT !.i = @ + 1,
               !.sent_count = IF ok THEN @ + 1 ELSE @,
               !.failed_count = IF ok THEN @ ELSE @ + 1,
               !.pc = IF me.i + 1 < Len(me.fetched) THEN "send" ELSE "report"]

\* handle_callback: for the cancel button the edit of the confirmation
\* message; for the confirm button the edit, the SELECT of the users that are
\* not banned, one send_message to each of them, a failure caught and
\* counted, then the report, and log_activity.  An edit that leaves the text
\* of the message as it is fails
handle_callback(w) ==
    /\ workers[w].handler = "handle_callback"
    /\ LET me == workers[w]
           call == me.msg
           p == me.prompt
           broadcast_text == token_text(call.text)
           Edit(kind, shown, next) ==
               \E made \in IF prompts[p].shown = shown
                           THEN {<<Out(call.chat, kind, <<>>, FALSE)>>}
                           ELSE Attempts(<<Out(call.chat, kind, <<>>, TRUE)>>) :
                   /\ UNCHANGED <<users, jobs>>
                   /\ NoLog
                   /\ workers' = IF made[1].ok /\ next # "return"
                                 THEN Goto(workers, w, next) ELSE Done(workers, w)
                   /\ prompts' = IF made[1].ok THEN [prompts EXCEPT ![p].shown = shown]
                                 ELSE prompts
                   /\ sent' = made
                   /\ outages' = IF prompts[p].shown = shown THEN outages
                                 ELSE outages - Failures(made)
                   /\ UNCHANGED <<ADMIN_ID, TZ, utc, today, daily_metrics, received, lost, restarts,
                                  user_state, metrics, runs>>
       IN  IF call.text = T_cancel THEN Edit("edit_cancelled", "cancelled", "return")
           ELSE IF ~StartsWith(call.text, T_confirm)
           THEN /\ UNCHANGED <<users, jobs>>
                /\ NoLog
                /\ Statement(w, Done(workers, w), user_state, prompts, <<>>)
           ELSE CASE me.pc = "edit" -> Edit("edit_sending", "sending", "select")
                  [] me.pc = "select" ->
                     /\ UNCHANGED <<users, jobs>>
                     /\ NoLog
                     /\ Statement(w, [workers EXCEPT ![w].fetched = get_active_users(users),
                                                  ![w].pc = IF get_active_users(users) = <<>>
                                                            THEN "report" ELSE "send"],
                                  user_state, prompts, <<>>)
                  [] me.pc = "send" ->
                     \E made \in Attempts(<<Out(me.fetched[me.i + 1], "announcement",
                                                 broadcast_text, TRUE)>>) :
                         /\ UNCHANGED <<users, jobs>>
                         /\ NoLog
                         /\ Statement(w, [workers EXCEPT ![w] = delivered(me, made[1].ok)],
                                      user_state, prompts, made)
                  [] me.pc = "report" ->
                     \E made \in Attempts(<<Out(call.chat, "broadcast_complete",
                                    <<ToStr(Len(me.fetched)), ToStr(me.sent_count),
                                      ToStr(me.failed_count),
                                      Prefix(broadcast_text, PreviewLen) \o T_dots>>, TRUE)>>) :
                         /\ UNCHANGED <<users, jobs>>
                         /\ NoLog
                         /\ Statement(w, IF Raised(made) THEN Done(workers, w)
                                      ELSE Goto(workers, w, "log"),
                                      user_state, prompts, made)
                  [] me.pc = "log" ->
                     \E ok \in LogOutcomes(w) :
                         /\ Logged(w, call.from_user, "broadcast_sent",
                                   <<"S", "e", "n", "t", " ", "t", "o", " ">> \o ToStr(me.sent_count) \o <<" ", "u", "s", "e", "r", "s", ".", " ", "M", "e", "s", "s", "a", "g", "e", ":", " ">>
                                   \o Prefix(broadcast_text, BroadcastLogLen), ok)
                         /\ UNCHANGED <<users, jobs>>
                         /\ Statement(w, Done(workers, w), user_state, prompts, <<>>)

(* ------------------------- metrics and restarts ------------------------ *)
\* INSERT OR REPLACE INTO daily_metrics: the row of the same date (the
\* primary key) is deleted, the new row is inserted
insert_or_replace(tbl, row) ==
    Append(SelectSeq(tbl, LAMBDA r : r.date # row.date), row)

\* SELECT COUNT(*) FROM users WHERE DATE(created) = ?
new_users_on(tbl, date) == Cardinality({u \in DOMAIN tbl : tbl[u].created = date})

\* SELECT COUNT(*) FROM jobs WHERE DATE(created) = ?
new_jobs_on(tbl, date) == Cardinality({j \in 1..Len(tbl) : tbl[j].created = date})

\* SELECT COUNT(DISTINCT user_id) FROM user_activity WHERE DATE(timestamp) = ?
active_users_on(tbl, date) ==
    Cardinality({tbl[k].user_id : k \in {j \in 1..Len(tbl) : tbl[j].timestamp = date}})

\* the last two of the rows written by runs that saw the same tables
Recent(rows) == Suffix(rows, IF Len(rows) > 2 THEN Len(rows) - 2 ELSE 0)

\* thread th executes the next statement of update_daily_metrics: the three
\* counts of the rows whose UTC day is the local day read from the clock, each
\* a SELECT of its own, and the INSERT OR REPLACE of the row of that day.
\* With the write lock held by another connection the INSERT waits, and when
\* its timeout ends first the error is printed and no row is written
update_daily_metrics(th) ==
    /\ metrics[th].pc # "idle"
    /\ LET me == metrics[th]
           row == [date |-> me.today, new_users |-> me.new_users,
                   new_jobs |-> me.new_jobs, active_users |-> me.active_users]
       IN  CASE me.pc = "new_users" ->
                 /\ metrics' = [metrics EXCEPT ![th] =
                        [me EXCEPT !.today = today, !.clean = TRUE,
                                   !.new_users = new_users_on(users, today),
                                   !.pc = "new_jobs"]]
                 /\ UNCHANGED <<daily_metrics, runs>>
            [] me.pc = "new_jobs" ->
                 /\ metrics' = [metrics EXCEPT ![th] =
                        [me EXCEPT !.new_jobs = new_jobs_on(jobs, me.today),
                                   !.pc = "active_users"]]
                 /\ UNCHANGED <<daily_metrics, runs>>
            [] me.pc = "active_users" ->
                 /\ metrics' = [metrics EXCEPT ![th] =
                        [me EXCEPT !.active_users = active_users_on(user_activity, me.today),
                                   !.pc = "insert"]]
                 /\ UNCHANGED <<daily_metrics, runs>>
            [] me.pc = "insert" ->
                 /\ daily_metrics' = IF Locked THEN daily_metrics
                                     ELSE insert_or_replace(daily_metrics, row)
                 /\ metrics' = [metrics EXCEPT ![th] = [IdleRun EXCEPT !.fired = me.fired]]
                 /\ runs' = IF me.clean /\ ~Locked
                            THEN Recent(runs \o SelectSeq(daily_metrics',
                                                          LAMBDA r : r.date = me.today))
                            ELSE runs
    /\ sent' = <<>>
    /\ UNCHANGED <<ADMIN_ID, TZ, utc, today, users, jobs, user_activity, user_state, prompts, workers,
                   received, faults, write_lock, outages, lost, restarts>>

\* schedule_metrics_update: the metrics thread finds the job of 23:59 local
\* time pending, once a day, and calls update_daily_metrics; on a host behind
\* UTC the day of UTC has changed by then
schedule_metrics_update ==
    /\ metrics["schedule"].pc = "idle"
    /\ metrics["schedule"].fired < today
    /\ utc = IF TZ = "behind" THEN today + 1 ELSE today
    /\ metrics' = [metrics EXCEPT !["schedule"].pc = "new_users",
                                  !["schedule"].fired = today]
    /\ sent' = <<>>
    /\ UNCHANGED <<ADMIN_ID, TZ, utc, today, users, jobs, user_activity, daily_metrics, user_state,
                   prompts, workers, received, faults, write_lock, outages, lost, restarts, runs>>

\* main: infinity_polling raised, and main() is called again in the same
\* process; it calls update_daily_metrics before it polls again.  user_state
\* and the worker threads are those of before
main ==
    /\ restarts < MaxRestarts
    /\ metrics["main"].pc = "idle"
    /\ metrics' = [metrics EXCEPT !["main"].pc = "new_users"]
    /\ restarts' = restarts + 1
    /\ sent' = <<>>
    /\ UNCHANGED <<ADMIN_ID, TZ, utc, today, users, jobs, user_activity, daily_metrics, user_state,
                   prompts, workers, received, faults, write_lock, outages, lost, runs>>

\* the process is stopped and started again: the statements of the module run
\* (init_database on the database file that is there, user_state = {}, the
\* metrics thread) with no handler under way, and main() is called
restart ==
    /\ restarts < MaxRestarts
    /\ restarts' = restarts + 1
    /\ user_state' = Empty
    /\ lost' = user_state
    /\ workers' = [w \in Workers |-> IdleWorker]
    /\ write_lock' = [holder |-> 0, timed_out |-> {}]
    /\ metrics' = [th \in MetricsThreads |->
                      IF th = "main" THEN [IdleRun EXCEPT !.pc = "new_users"]
                      ELSE [IdleRun EXCEPT !.fired = metrics[th].fired]]
    /\ received' = 0
    /\ sent' = <<>>
    /\ UNCHANGED <<ADMIN_ID, TZ, utc, today, users, jobs, user_activity, daily_metrics, prompts,
                   faults, outages, runs>>

\* midnight passes on the clock of the host: on a UTC host the day of UTC
\* changes with it, on a host behind UTC it has changed before, on a host
\* ahead of UTC it changes later
NextDay ==
    /\ today < MaxDay
    /\ utc = IF TZ = "behind" THEN today + 1 ELSE today
    /\ today' = today + 1
    /\ utc' = IF TZ = "UTC" THEN utc + 1 ELSE utc
    /\ metrics' = Unclean(metrics)
    /\ runs' = <<>>
    /\ sent' = <<>>
    /\ UNCHANGED <<ADMIN_ID, TZ, users, jobs, user_activity, daily_metrics, user_state, prompts,
                   workers, received, faults, write_lock, outages, lost, restarts>>

\* midnight passes in UTC on a host whose clock is not UTC
NextDayUTC ==
    /\ TZ # "UTC"
    /\ utc = IF TZ = "behind" THEN today ELSE today - 1
    /\ utc' = utc + 1
    /\ sent' = <<>>
    /\ UNCHANGED <<ADMIN_ID, TZ, today, users, jobs, user_activity, daily_metrics, user_state,
                   prompts, workers, metrics, received, faults, write_lock, outages, lost,
                   restarts, runs>>

(* ------------------------------ start ---------------------------------- *)
\* a first start on an empty database, when main() has made its run of
\* update_daily_metrics and polls; ADMIN_ID is as the environment gives it
Started(admin, tz, nfaults, noutages) ==
    /\ ADMIN_ID = admin
    /\ TZ = tz
    /\ utc = 1
    /\ today = 1
    /\ users = Empty
    /\ jobs = <<>>
    /\ user_activity = <<>>
    /\ daily_metrics = <<[date |-> 1, new_users |-> 0, new_jobs |-> 0, active_users |-> 0]>>
    /\ user_state = Empty
    /\ prompts = <<>>
    /\ workers = [w \in Workers |-> IdleWorker]
    /\ metrics = [th \in MetricsThreads |-> IdleRun]
    /\ sent = <<>>
    /\ received = 0
    /\ faults = nfaults
    /\ write_lock = [holder |-> 0, timed_out |-> {}]
    /\ outages = noutages
    /\ lost = Empty
    /\ restarts = 0
    /\ runs = <<[date |-> 1, new_users |-> 0, new_jobs |-> 0, active_users |-> 0]>>

Init == \E a \in AdminIds, tz \in {"behind", "UTC", "ahead"} : Started(a, tz, 0, 0)

(* --------------------------- the whole program ------------------------- *)
Next ==
    \/ \E u \in Users, t \in AllTexts : \E c \in {u, GroupChat} : receive(u, c, t)
    \/ \E u \in Users, p \in 1..MaxMessages, data \in {T_cancel} \cup {callback_token(Suffix(t, Len(T_broadcast) + 1)) : t \in BroadcastTexts \cup DraftTexts} :
           callback_query(u, p, data)
    \/ \E w \in Workers : test_handlers(w)
    \/ \E w \in Workers : start(w)
    \/ \E w \in Workers : choose_role(w)
    \/ \E w \in Workers : handle_skills(w)
    \/ \E w \in Workers : handle_location(w)
    \/ \E w \in Workers : handle_job_title(w)
    \/ \E w \in Workers : handle_job_description(w)
    \/ \E w \in Workers : handle_job_budget(w)
    \/ \E w \in Workers : list_jobs_command(w)
    \/ \E w \in Workers : profile_command(w)
    \/ \E w \in Workers : help_command(w)
    \/ \E w \in Workers : get_id_command(w)
    \/ \E w \in Workers : admin_dashboard(w)
    \/ \E w \in Workers : admin_users(w)
    \/ \E w \in Workers : admin_all_jobs(w)
    \/ \E w \in Workers : view_user_detail(w)
    \/ \E w \in Workers : handle_ban_unban(w)
    \/ \E w \in Workers : daily_report(w)
    \/ \E w \in Workers : analytics(w)
    \/ \E w \in Workers : broadcast_message(w)
    \/ \E w \in Workers : handle_callback(w)
    \/ \E w \in Workers : handle_unknown(w)
    \/ \E th \in MetricsThreads : update_daily_metrics(th)
    \/ schedule_metrics_update
    \/ main
    \/ restart
    \/ NextDay
    \/ NextDayUTC

Spec == Init /\ [][Next]_vars

\* user u has no update under way: what they send next answers the reply to
\* their last message
Quiet(u) == \A w \in Workers : workers[w].msg.from_user # u

\* worker w takes the step: it leaves the statement it is at
Took(w) ==
    /\ restarts' = restarts
    /\ workers[w].pc # "idle"
    /\ <<workers'[w].pc, workers'[w].i, workers'[w].tested>>
           # <<workers[w].pc, workers[w].i, workers[w].tested>>

\* worker w is at statement pc of handler h
At(w, h, pc) == workers[w].handler = h /\ workers[w].pc = pc


\* a first start on a UTC host with the first user id for ADMIN_ID, every
\* write of log_activity and every API call succeeding
InitAdmin == Started(1, "UTC", 0, 0)
(* ----------------- conversation flows, answered in order --------------- *)
\* the entry of user u in user_state, a step of None standing for no entry
EntryIn(state, u) == IF u \in DOMAIN state THEN state[u] ELSE [step |-> "None"]
Entry(u) == EntryIn(user_state, u)

\* the rows of user u in table tbl
EventsOf(tbl, u) == SelectSeq(tbl, LAMBDA e : e.user_id = u)

\* a client and a freelancer who answer the questions of the bot: each sends
\* the text of their role when they are in no flow, and a plain text when the bot
\* has asked them for one; the admin bans the client at any moment
FlowMessages == 6
FlowInputs == [u \in {2, 3} |-> IF u = 2 THEN {T_client, W_a, W_b}
                                 ELSE {T_freelancer, W_a, W_b}]

NextFlow ==
    \/ \E u \in {2, 3} : \E t \in FlowInputs[u] :
           /\ received < FlowMessages
           /\ Quiet(u)
           /\ t \in RoleTexts <=> Step(u) = "None"
           /\ receive(u, u, t)
    \/ /\ received < FlowMessages
       /\ Quiet(1)
       /\ receive(1, 1, T_ban_ \o <<"2">>)
    \/ \E w \in Workers : test_handlers(w)
    \/ \E w \in Workers : choose_role(w)
    \/ \E w \in Workers : handle_skills(w)
    \/ \E w \in Workers : handle_location(w)
    \/ \E w \in Workers : handle_job_title(w)
    \/ \E w \in Workers : handle_job_description(w)
    \/ \E w \in Workers : handle_job_budget(w)
    \/ \E w \in Workers : handle_ban_unban(w)

SpecFlow == InitAdmin /\ [][NextFlow]_vars

\* C1: a user who selects the client role and then sends the title, the
\* description and the budget, one after the other, gets exactly one new job
\* row: role selection leaves the step job_title; each of the three texts is
\* handled by the handler of the step the user is at; the title step and the
\* description step store their text unchanged and create no job row; the
\* budget step appends one row whose client is the user, whose title and
\* description are the stored ones, whose budget is its text and whose status
\* is open, and then removes the entry of the user; no step of a handler
\* touches the entry of another user.
C1_ClientFlowCreatesOneJob ==
    [][\A w \in Workers : Took(w) =>
          LET me == workers[w]
              u == me.msg.from_user
              t == me.msg.text
          IN  /\ \A v \in Users \ {u} : EntryIn(user_state', v) = Entry(v)
              /\ (me.pc = "filter" /\ Step(u) \in {"job_title", "job_description", "job_budget"})
                    => workers'[w].handler = StepHandlers[Step(u)]
              /\ me.pc = "filter" => jobs' = jobs /\ user_state' = user_state
              /\ me.handler = "choose_role" =>
                    /\ jobs' = jobs
                    /\ (me.pc = "state" /\ t = T_client) => EntryIn(user_state', u) = [step |-> "job_title"]
              /\ me.handler = "handle_job_title" =>
                    /\ jobs' = jobs
                    /\ EntryIn(user_state', u) = [step |-> "job_description", title |-> t]
              /\ me.handler = "handle_job_description" =>
                    /\ jobs' = jobs
                    /\ me.pc = "description" =>
                          EntryIn(user_state', u) = [step |-> "job_description", title |-> Entry(u).title,
                                       description |-> t]
                    /\ me.pc = "step" =>
                          EntryIn(user_state', u) = [step |-> "job_budget", title |-> Entry(u).title,
                                       description |-> t]
              /\ me.handler = "handle_job_budget" =>
                    /\ me.pc = "create_job" =>
                          /\ Entry(u).step = "job_budget"
                          /\ jobs' = Append(jobs,
                                 [client_id |-> u, title |-> Entry(u).title,
                                  description |-> Entry(u).description, budget |-> t,
                                  status |-> "open", created |-> utc])
                    /\ me.pc # "create_job" => jobs' = jobs
                    /\ me.pc \in {"job_data", "log", "create_job"} => EntryIn(user_state', u) = Entry(u)
                    /\ me.pc = "pop" => u \notin DOMAIN user_state'
                    /\ me.pc \in {"freelancers", "notify", "notified"} => user_state' = user_state
      ]_vars

\* C7: a user who selects the freelancer role and then sends their skills and
\* their location, one after the other, has a row with role freelancer, the
\* first text as skills and the second as location, and no entry in
\* user_state: role selection writes the role and leaves the step ask_skills;
\* the two texts are handled by handle_skills and handle_location; the skills
\* step writes its text into skills alone, the location step writes its text
\* into location alone and removes the entry.
C7_FreelancerFlowStoresProfile ==
    [][\A w \in Workers : Took(w) =>
          LET me == workers[w]
              u == me.msg.from_user
              t == me.msg.text
          IN  /\ \A v \in DOMAIN users \ {u} : v \in DOMAIN users' /\ users'[v] = users[v]
              /\ (me.pc = "filter" /\ Step(u) \in {"ask_skills", "ask_location"})
                    => workers'[w].handler = StepHandlers[Step(u)]
              /\ (me.handler = "choose_role" /\ t = T_freelancer) =>
                    /\ me.pc = "save_user" =>
                          u \in DOMAIN users' /\ users'[u].role = "freelancer"
                    /\ me.pc = "state" => EntryIn(user_state', u) = [step |-> "ask_skills"]
              /\ me.handler = "handle_skills" =>
                    /\ u \in DOMAIN users
                    /\ me.pc = "update" => users' = [users EXCEPT ![u].skills = t]
                    /\ me.pc # "update" => users' = users
                    /\ me.pc = "state" => EntryIn(user_state', u) = [step |-> "ask_location"]
                    /\ me.pc # "state" => user_state' = user_state
              /\ me.handler = "handle_location" =>
                    /\ u \in DOMAIN users
                    /\ me.pc = "update" => users' = [users EXCEPT ![u].location = t]
                    /\ me.pc # "update" => users' = users
                    /\ me.pc = "state" => u \notin DOMAIN user_state'
                    /\ me.pc # "state" => user_state' = user_state
      ]_vars

\* the handlers of the six conversation transitions
TransitionHandlers == {"choose_role", "handle_skills", "handle_location",
                       "handle_job_title", "handle_job_description", "handle_job_budget"}

\* C14: every conversation transition appends exactly one user_activity row
\* for the acting user: when a handler of role selection or of a step moves
\* the user to the next step, it has appended one row for them.
C14_OneEventPerTransition ==
    [][\A w \in Workers :
          (/\ Took(w)
           /\ workers[w].handler \in TransitionHandlers
           /\ EntryIn(user_state', workers[w].msg.from_user).step # Entry(workers[w].msg.from_user).step)
              => workers[w].logged + Appended(w) = 1
      ]_vars

(* --------------- one user, every kind of text, in order ---------------- *)
\* a user who is not the admin sends role texts, commands and plain texts in
\* any order, each after the bot has handled the one before, while the admin
\* bans them at any moment and a write of log_activity may fail
RoutingMessages == 4
RoutingTexts == {T_start, T_freelancer, T_client, W_a, T_jobs, T_help, T_foo}

NextRouting ==
    \/ \E t \in RoutingTexts :
           /\ received < RoutingMessages
           /\ Quiet(2)
           /\ receive(2, 2, t)
    \/ /\ received < RoutingMessages
       /\ Quiet(1)
       /\ receive(1, 1, T_ban_ \o <<"2">>)
    \/ \E w \in Workers : test_handlers(w)
    \/ \E w \in Workers : start(w)
    \/ \E w \in Workers : choose_role(w)
    \/ \E w \in Workers : handle_skills(w)
    \/ \E w \in Workers : handle_location(w)
    \/ \E w \in Workers : handle_job_title(w)
    \/ \E w \in Workers : handle_job_description(w)
    \/ \E w \in Workers : handle_job_budget(w)
    \/ \E w \in Workers : list_jobs_command(w)
    \/ \E w \in Workers : help_command(w)
    \/ \E w \in Workers : handle_unknown(w)
    \/ \E w \in Workers : handle_ban_unban(w)

SpecRouting == Started(1, "UTC", MaxLogFailures, 0) /\ [][NextRouting]_vars

\* C4: role selection by a user who already has a row changes only the role
\* and the username of the row: skills, location and creation day are after
\* every statement of choose_role what they were before it.
C4_UpsertKeepsProfile ==
    [][\A w \in Workers :
          (/\ Took(w)
           /\ workers[w].handler = "choose_role"
           /\ workers[w].msg.from_user \in DOMAIN users)
              => LET u == workers[w].msg.from_user
                 IN  /\ users'[u].skills = users[u].skills
                     /\ users'[u].location = users[u].location
                     /\ users'[u].created = users[u].created
      ]_vars

\* C6: there is at most one row of users per user id and its role is one of
\* freelancer and client; when a user who has a row sends the other role
\* text, save_user leaves the ids that have a row as they are, stores the
\* chosen role in their row and leaves the other rows alone.
C6_OneRowOneRole ==
    [][/\ \A u \in DOMAIN users' : users'[u].role \in {"freelancer", "client"}
       /\ \A w \in Workers :
             (Took(w) /\ At(w, "choose_role", "save_user")) =>
                LET u == workers[w].msg.from_user
                    role == IF workers[w].msg.text = T_freelancer THEN "freelancer"
                            ELSE "client"
                IN  /\ DOMAIN users' = DOMAIN users \cup {u}
                    /\ u \in DOMAIN users' /\ users'[u].role = role
                    /\ \A v \in DOMAIN users \ {u} : users'[v] = users[v]
      ]_vars

\* C21 as stated: a text that is no command and no role text, from a user
\* without an entry in user_state, goes to handle_unknown, which appends one
\* unknown_command row for the user, leaves users, jobs and user_state as
\* they are, and sends the list of commands if and only if the text starts
\* with a slash; a plain text gets no answer.
C21_FallbackLogsAndAnswersCommandsOnly ==
    [][\A w \in Workers : Took(w) =>
          LET me == workers[w]
              u == me.msg.from_user
              t == me.msg.text
          IN  /\ (me.pc = "filter" /\ Step(u) = "None" /\ FilterTable[t].late = "handle_unknown")
                    => workers'[w].handler = "handle_unknown"
              /\ me.handler = "handle_unknown" =>
                    /\ users' = users /\ jobs' = jobs /\ user_state' = user_state
                    /\ workers'[w].pc = "idle"
                    /\ user_activity' = Append(user_activity,
                           [user_id |-> u, action |-> "unknown_command",
                            details |-> Prefix(t, UnknownLogLen),
                            timestamp |-> utc])
                    /\ StartsWith(t, <<"/">>) =>
                           sent' = <<Out(me.msg.chat, "unknown_command", <<>>, TRUE)>>
                    /\ ~StartsWith(t, <<"/">>) => sent' = <<>>
      ]_vars

\* C21: a text that is no command and no role text, from a user without an
\* entry in user_state, goes to handle_unknown, which appends one
\* unknown_command row for the user unless the write of log_activity fails,
\* and none when it fails, leaves users, jobs and user_state as they are, and
\* sends the list of commands if and only if the text starts with a slash; a
\* plain text gets no answer.
C21_FallbackLogsBestEffort ==
    [][\A w \in Workers : Took(w) =>
          LET me == workers[w]
              u == me.msg.from_user
              t == me.msg.text
          IN  /\ (me.pc = "filter" /\ Step(u) = "None" /\ FilterTable[t].late = "handle_unknown")
                    => workers'[w].handler = "handle_unknown"
              /\ me.handler = "handle_unknown" =>
                    /\ users' = users /\ jobs' = jobs /\ user_state' = user_state
                    /\ workers'[w].pc = "idle"
                    /\ (faults' = faults /\ ~Locked) =>
                           user_activity' = Append(user_activity,
                               [user_id |-> u, action |-> "unknown_command",
                                details |-> Prefix(t, UnknownLogLen),
                                timestamp |-> utc])
                    /\ (faults' # faults \/ Locked) => user_activity' = user_activity
                    /\ StartsWith(t, <<"/">>) =>
                           sent' = <<Out(me.msg.chat, "unknown_command", <<>>, TRUE)>>
                    /\ ~StartsWith(t, <<"/">>) => sent' = <<>>
      ]_vars

\* of two unknown commands, both answered with the list of commands, one was
\* logged and the write of the other failed
C21_Witness ==
    /\ received = 2
    /\ faults = MaxLogFailures - 1
    /\ user_activity = <<[user_id |-> 2, action |-> "unknown_command", details |-> T_foo,
                          timestamp |-> 1]>>
    /\ sent = <<Out(2, "unknown_command", <<>>, TRUE)>>
    /\ users = Empty
    /\ Quiet(2)

\* the entry of u has one of the shapes of the flows, and the row of u has
\* the role of the flow the entry belongs to
StateShape(u) ==
    /\ u \in DOMAIN user_state =>
          LET e == user_state[u]
          IN  /\ e.step \in {"ask_skills", "ask_location", "job_title",
                             "job_description", "job_budget"}
              /\ e.step = "job_description" => "title" \in DOMAIN e
              /\ e.step = "job_budget" => {"title", "description"} \subseteq DOMAIN e
              /\ e.step \in {"ask_skills", "ask_location"} =>
                    u \in DOMAIN users /\ users[u].role = "freelancer"
              /\ e.step \in {"job_title", "job_description", "job_budget"} =>
                    u \in DOMAIN users /\ users[u].role = "client"

\* C26 as stated: in every reachable state the entry of every user has one of
\* the shapes and the row of the user has the role of the flow.
C26_StateShapesAlways == \A u \in Users : StateShape(u)

\* C26: when the messages of a user are processed in order, then in every
\* state in which no handler is at work for them their entry is absent or is at
\* one of ask_skills, ask_location, job_title, job_description (with a title)
\* and job_budget (with a title and a description); at ask_skills and
\* ask_location they have a row with role freelancer, at the three job steps a
\* row with role client.
C26_StateShapesBetweenMessages == \A u \in Users : Quiet(u) => StateShape(u)

\* the user is at the budget step with a title and a description stored
C26_Witness ==
    /\ Quiet(2)
    /\ Step(2) = "job_budget"
    /\ user_state[2].title = W_a
    /\ user_state[2].description = T_jobs
    /\ users[2].role = "client"

\* the handler that the priority of the filters gives text t of a user whose
\* entry is at step
Priority(step, t) ==
    IF IsCommand(t, T_start) THEN "start"
    ELSE IF t \in RoleTexts THEN "choose_role"
    ELSE IF step # "None" THEN StepHandlers[step]
    ELSE FilterTable[t].late

\* C27: each text is handled by one handler, chosen by priority: start, then
\* a role text, then the step the user is at, then the other commands, then
\* the fallback.  So a role text at any step replaces the entry of the user
\* by the first step of the chosen role, start leaves user_state as it is,
\* and while a step is active every other text, a command included, goes to
\* the handler of the step and not to the handler of the command.
C27_OneHandlerByPriority ==
    [][\A w \in Workers :
          LET me == workers[w]
              now == workers'[w]
              u == now.msg.from_user
          IN  /\ (me.pc = "idle" /\ now.pc \notin {"idle", "filter"})
                    => now.handler = Priority(Step(u), now.msg.text)
              /\ (me.pc = "filter" /\ Took(w))
                    => /\ now.msg = me.msg
                       /\ now.handler = Priority(Step(u), me.msg.text)
                       /\ user_state' = user_state
              /\ (me.handler # "None" /\ Took(w))
                    => /\ now.handler \in {me.handler, "None"}
                       /\ now.handler = me.handler => now.msg = me.msg
              /\ (me.handler = "start" /\ Took(w)) => user_state' = user_state
              /\ (At(w, "choose_role", "state") /\ Took(w))
                    => user_state'[me.msg.from_user] \in {[step |-> "ask_skills"], [step |-> "job_title"]}
              /\ (me.handler \in {"list_jobs_command", "help_command", "handle_unknown"}
                    /\ Took(w)) => Step(me.msg.from_user) = "None"
      ]_vars

\* the jobs command was stored as the description of a job
C27_Witness ==
    /\ Quiet(2)
    /\ Step(2) = "job_budget"
    /\ user_state[2].description = T_jobs
    /\ \A k \in 1..Len(user_activity) : user_activity[k].action # "view_jobs"

(* ------------------- the job notification fan-out ---------------------- *)
\* two users register as freelancers and a client posts a job, while one
\* call of the Telegram API and one write of log_activity may fail
FanoutMessages == 6
FanoutOutages == 1

InitFanout == Started(1, "UTC", MaxLogFailures, FanoutOutages)

NextFanout ==
    \/ \E u \in {1, 3} :
           /\ received < FanoutMessages
           /\ Quiet(u)
           /\ u \notin DOMAIN users
           /\ receive(u, u, T_freelancer)
    \/ \E t \in {T_client, W_a} :
           /\ received < FanoutMessages
           /\ Quiet(2)
           /\ t = T_client <=> Step(2) = "None"
           /\ receive(2, 2, t)
    \/ \E w \in Workers : test_handlers(w)
    \/ \E w \in Workers : choose_role(w)
    \/ \E w \in Workers : handle_job_title(w)
    \/ \E w \in Workers : handle_job_description(w)
    \/ \E w \in Workers : handle_job_budget(w)

SpecFanout == InitFanout /\ [][NextFanout]_vars

\* C2: every job row created by the budget step is followed by one delivery
\* attempt to each freelancer who is not banned, whatever the outcome of any
\* send, the confirmation to the client included: handle_job_budget does not
\* return between create_job and the end of the fan-out while a freelancer
\* who is not banned has had no attempt.
C2_OneAttemptPerFreelancer ==
    [][\A w \in Workers :
          (/\ Took(w)
           /\ workers[w].handler = "handle_job_budget"
           /\ workers[w].pc \in {"pop", "freelancers", "notify", "notified"}
           /\ workers'[w].pc = "idle")
              => \/ get_freelancers(users) = <<>>
                 \/ /\ workers[w].pc \in {"notify", "notified"}
                    /\ workers[w].fetched = get_freelancers(users)
                    /\ workers[w].i = Len(workers[w].fetched)
      ]_vars

\* the row log_activity appends for a notified freelancer
NotificationRow(fid, job_id) ==
    [user_id |-> fid, action |-> "job_notification",
     details |-> <<"N", "o", "t", "i", "f", "i", "e", "d", " ", "a", "b", "o", "u", "t", " ", "j", "o", "b", " ", "#">> \o ToStr(job_id), timestamp |-> utc]

\* C18 as stated: each successful delivery of the fan-out appends one
\* job_notification row for the recipient, and a failed delivery appends none.
C18_EventPerDelivery ==
    [][\A w \in Workers :
          LET fid == workers[w].fetched[workers[w].i]
          IN  /\ (Took(w) /\ At(w, "handle_job_budget", "notify")) =>
                    /\ user_activity' = user_activity
                    /\ workers'[w].pc = "notified" <=> sent'[1].ok
              /\ (Took(w) /\ At(w, "handle_job_budget", "notified")) =>
                    user_activity' = Append(user_activity, NotificationRow(fid, workers[w].job_id))
      ]_vars

\* C18: in the fan-out, a job_notification row is appended only for a
\* freelancer to whom the delivery succeeded, at most one for each delivery,
\* with the recipient as actor and naming the new job; a failed delivery
\* appends none; a successful delivery appends one unless the write of
\* log_activity fails.
C18_EventPerLoggedDelivery ==
    [][\A w \in Workers :
          LET fid == workers[w].fetched[workers[w].i]
              row == NotificationRow(fid, workers[w].job_id)
          IN  /\ (Took(w) /\ At(w, "handle_job_budget", "notify")) =>
                    /\ sent' = <<Out(fid, "new_job",
                                     <<workers[w].job_data.title, workers[w].msg.text>>,
                                     sent'[1].ok)>>
                    /\ user_activity' = user_activity
                    /\ workers'[w].pc = "notified" <=> sent'[1].ok
              /\ (Took(w) /\ At(w, "handle_job_budget", "notified")) =>
                    /\ sent' = <<>>
                    /\ (faults' = faults /\ ~Locked)
                          => user_activity' = Append(user_activity, row)
                    /\ (faults' # faults \/ Locked) => user_activity' = user_activity
      ]_vars

\* the delivery to the first freelancer failed and the delivery to the second
\* succeeded and was logged
C18_Witness ==
    /\ \A w \in Workers : workers[w].pc = "idle"
    /\ Len(jobs) = 1
    /\ get_freelancers(users) = <<1, 3>>
    /\ outages = 0
    /\ faults = MaxLogFailures
    /\ EventsOf(user_activity, 1) = <<[user_id |-> 1, action |-> "role_selected",
            details |-> <<"S", "e", "l", "e", "c", "t", "e", "d", " ", "r", "o", "l", "e", ":", " ">> \o RoleText("freelancer"), timestamp |-> 1]>>
    /\ user_activity[Len(user_activity)] = NotificationRow(3, 1)

(* ---------------------------- ban and unban ---------------------------- *)
\* the admin bans and unbans user 2, by a numeric id and by a text that is no
\* number, at any moment, while user 2 selects roles and answers the
\* questions of the flows in order and user 3 registers as a freelancer
BanMessages == 6
BanCommands == {T_ban_ \o <<"2">>, T_unban_ \o <<"2">>, T_ban_ \o <<"x">>}

NextBan ==
    \/ \E t \in BanCommands :
           /\ received < BanMessages
           /\ Quiet(1)
           /\ receive(1, 1, t)
    \/ \E t \in {T_freelancer, T_client, W_a} :
           /\ received < BanMessages
           /\ Quiet(2)
           /\ t \in RoleTexts <=> Step(2) = "None"
           /\ receive(2, 2, t)
    \/ /\ received < BanMessages
       /\ Quiet(3)
       /\ 3 \notin DOMAIN users
       /\ receive(3, 3, T_freelancer)
    \/ \E w \in Workers : test_handlers(w)
    \/ \E w \in Workers : choose_role(w)
    \/ \E w \in Workers : handle_skills(w)
    \/ \E w \in Workers : handle_location(w)
    \/ \E w \in Workers : handle_job_title(w)
    \/ \E w \in Workers : handle_job_description(w)
    \/ \E w \in Workers : handle_job_budget(w)
    \/ \E w \in Workers : handle_ban_unban(w)

SpecBan == InitAdmin /\ [][NextBan]_vars

\* worker w commits the UPDATE of a ban or unban of user v for the admin
BanStep(w, v) ==
    /\ Took(w)
    /\ At(w, "handle_ban_unban", "commit")
    /\ v = UserId(IntOf(SplitOn(workers[w].msg.text, "_")[2]))

\* C5: the is_banned flag of a user changes only through the ban and unban
\* of the admin: no statement of another handler, and so no message of the
\* user themself, changes the flag of a row.
C5_BannedOnlyByAdmin ==
    [][\A u \in DOMAIN users :
          (u \in DOMAIN users' /\ users'[u].is_banned # users[u].is_banned)
             => \E w \in Workers : BanStep(w, u)
      ]_vars

\* C13: right after the commit of the ban of a user who has a row, the user is in neither
\* the list of get_freelancers nor the list of the broadcast targets, and
\* every row of jobs and of user_activity is as it was; right after the unban
\* of a user who has a row, they are in the broadcast targets, and in the list
\* of get_freelancers when their role is freelancer.
C13_BanRemovesFromTargets ==
    [][\A w \in Workers : \A v \in DOMAIN users :
          BanStep(w, v) =>
              /\ jobs' = jobs
              /\ SubSeq(user_activity', 1, Len(user_activity)) = user_activity
              /\ StartsWith(workers[w].msg.text, T_ban_) =>
                    /\ v \notin Range(get_freelancers(users'))
                    /\ v \notin Range(get_active_users(users'))
              /\ StartsWith(workers[w].msg.text, T_unban_) =>
                    /\ v \in Range(get_active_users(users'))
                    /\ v \in Range(get_freelancers(users')) <=> users[v].role = "freelancer"
      ]_vars

\* freelancer 2 has just been banned: of the two freelancers only user 3 is
\* a target, and the rows of user 2 are still there
C13_Witness ==
    /\ \E w \in Workers : At(w, "handle_ban_unban", "username")
    /\ DOMAIN users = {2, 3}
    /\ users[2].role = "freelancer"
    /\ users[2].is_banned = 1
    /\ get_freelancers(users) = <<3>>
    /\ get_active_users(users) = <<3>>
    /\ EventsOf(user_activity, 2) # <<>>

\* C23: a ban or unban whose argument is no number is answered with the
\* error text and changes no table; a ban or unban of an id that has no row
\* creates no row and is not answered with the text of a completed ban.
C23_BanOfUnknownIsNotFound ==
    [][\A w \in Workers :
          (/\ Took(w)
           /\ workers[w].handler = "handle_ban_unban"
           /\ is_admin(workers[w].msg.from_user)) =>
              LET arg == SplitOn(workers[w].msg.text, "_")[2]
              IN  /\ ~IntOk(arg) =>
                        /\ <<users', jobs', user_activity', daily_metrics'>>
                              = <<users, jobs, user_activity, daily_metrics>>
                        /\ sent' = <<Out(workers[w].msg.chat, "error", arg, TRUE)>>
                  /\ (IntOk(arg) /\ UserId(IntOf(arg)) \notin DOMAIN users) =>
                        /\ users' = users
                        /\ \A k \in 1..Len(sent') : sent'[k].kind # "ban_result"
      ]_vars

\* a statement of the conversation engine taken by worker x
EngineStep(x) ==
    \/ test_handlers(x)
    \/ choose_role(x)
    \/ handle_skills(x)
    \/ handle_location(x)
    \/ handle_job_title(x)
    \/ handle_job_description(x)
    \/ handle_job_budget(x)

\* the user_state tables a statement of a handler of user v can lead to
CandStates(v) ==
    {user_state, Pop(user_state, v)}
    \cup {Put(user_state, v, [step |-> s]) : s \in {"ask_skills", "ask_location", "job_title"}}
    \cup {Put(user_state, v, [step |-> "job_description", title |-> W_a])}
    \cup {Put(user_state, v, [step |-> s, title |-> W_a, description |-> W_a]) :
             s \in {"job_description", "job_budget"}}

\* the jobs tables a statement of a handler of user v can lead to
CandJobs(v) == {jobs, create_job(jobs, v, W_a, W_a, W_a)}

\* the statements a worker can be at after a statement of the engine
CandPcs == {"idle", "filter", "log", "save_user", "update", "state", "description", "step",
            "job_data", "create_job", "pop", "freelancers", "notify", "notified"}

\* the statements of the engine that write to the database: they wait while
\* the UPDATE of a ban is not committed
WritePcs == {"log", "save_user", "update", "create_job", "notified"}

\* the users table with the is_banned column blanked
Blind(tbl) == [u \in DOMAIN tbl |-> [tbl[u] EXCEPT !.is_banned = 0]]

\* the users table with the is_banned column of user v the other way round
Flip(tbl, v) == IF v \in DOMAIN tbl THEN [tbl EXCEPT ![v].is_banned = 1 - @] ELSE tbl

\* C28: the commit of a ban or unban of user v by the admin leaves user_state
\* and jobs as they are and changes nothing in users but the is_banned column
\* of v; when it has changed that column, the statement that a handler of a
\* message of v takes next, unless it is a write that was waiting for the
\* commit, has, before and after the change, the same outcomes: the same
\* user_state, the same jobs table, the same next statement, the same
\* freelancers fetched for the fan-out and the same messages sent; and a write
\* of the engine to users or jobs stores, but for the is_banned column, what
\* it would store were the column of its user the other way round.
C28_BanDoesNotSteerTheEngine ==
    [][/\ \A x \in Workers :
             (/\ Took(x)
              /\ workers[x].handler \in {"choose_role", "handle_skills", "handle_location",
                                         "handle_job_budget"}
              /\ workers[x].pc \in {"save_user", "update", "create_job"}) =>
                 LET m == workers[x].msg
                     v == m.from_user
                     role == IF HasFreelancer(m.text) THEN "freelancer" ELSE "client"
                     col == IF workers[x].handler = "handle_skills" THEN "skills" ELSE "location"
                 IN  /\ \/ users' = users
                        \/ /\ workers[x].pc = "save_user"
                           /\ Blind(users') = Blind(save_user(Flip(users, v), v, Username(v), role))
                        \/ /\ workers[x].pc = "update"
                           /\ Blind(users') = Blind(update_user(Flip(users, v), v, col, m.text))
                     /\ jobs' \in CandJobs(v)
       /\ \A w \in Workers : \A v \in DOMAIN users :
          BanStep(w, v) =>
              /\ user_state' = user_state
              /\ jobs' = jobs
              /\ DOMAIN users' = DOMAIN users
              /\ \A u \in DOMAIN users :
                    [users'[u] EXCEPT !.is_banned = 0] = [users[u] EXCEPT !.is_banned = 0]
              /\ \A u \in DOMAIN users \ {v} : users'[u].is_banned = users[u].is_banned
              /\ users'[v].is_banned # users[v].is_banned =>
                    \A x \in {y \in Workers \ {w} : /\ workers[y].msg.from_user = v
                                                     /\ workers[y].pc \notin WritePcs} :
                    \E CS \in {CandStates(v)}, CJ \in {CandJobs(v)} :
                    \E CF \in {{<<>>, workers[x].fetched, get_freelancers(users)}} :
                    \E CM \in {{<<>>} \cup
                               {<<Out(to, kind, body, TRUE)>> :
                                   to \in {v} \cup Range(workers[x].fetched),
                                   kind \in {"ask_skills", "ask_title", "ask_location",
                                             "profile_complete", "ask_description",
                                             "ask_budget", "job_posted", "new_job"},
                                   body \in {<<>>, <<W_a, W_a>>, <<W_a, W_a, ToStr(Len(jobs))>>}}} :
                        /\ (ENABLED EngineStep(x)) <=> (ENABLED EngineStep(x))'
                        /\ ~ENABLED (EngineStep(x) /\ (\/ user_state' \notin CS
                                                       \/ jobs' \notin CJ
                                                       \/ workers'[x].pc \notin CandPcs
                                                       \/ workers'[x].fetched \notin CF
                                                       \/ sent' \notin CM))
                        /\ \A S \in CS :
                              (ENABLED (EngineStep(x) /\ user_state' = S))
                                 <=> (ENABLED (EngineStep(x) /\ user_state' = S))'
                        /\ \A J \in CJ :
                              (ENABLED (EngineStep(x) /\ jobs' = J))
                                 <=> (ENABLED (EngineStep(x) /\ jobs' = J))'
                        /\ \A pc \in CandPcs :
                              (ENABLED (EngineStep(x) /\ workers'[x].pc = pc))
                                 <=> (ENABLED (EngineStep(x) /\ workers'[x].pc = pc))'
                        /\ \A F \in CF :
                              (ENABLED (EngineStep(x) /\ workers'[x].fetched = F))
                                 <=> (ENABLED (EngineStep(x) /\ workers'[x].fetched = F))'
                        /\ \A M \in CM :
                              (ENABLED (EngineStep(x) /\ sent' = M))
                                 <=> (ENABLED (EngineStep(x) /\ sent' = M))'
      ]_vars

\* client 2 has been banned while their budget message is being handled, with
\* user 3 registered as a freelancer: the entry of user 2 is still there
C28_Witness ==
    /\ \E w \in Workers : At(w, "handle_ban_unban", "username")
    /\ \E x \in Workers : At(x, "handle_job_budget", "create_job")
    /\ users[2].is_banned = 1
    /\ users[2].role = "client"
    /\ Step(2) = "job_budget"
    /\ 3 \in DOMAIN users
    /\ users[3].role = "freelancer"

(* ------------------------------ broadcast ------------------------------ *)
\* users 2 and 3 register; the admin sends broadcast commands in their private
\* chat and in a group, and members of the chat press the buttons of the
\* confirmation messages, while calls of the Telegram API may fail
BroadcastMessages == 4
BroadcastOutages == 1

InitBroadcast == Started(1, "UTC", 0, BroadcastOutages)

NextBroadcast ==
    \/ \E u \in {2, 3} :
           /\ received < BroadcastMessages
           /\ Quiet(u)
           /\ u \notin DOMAIN users
           /\ receive(u, u, T_freelancer)
    \/ \E t \in {T_broadcast, T_broadcast \o <<" ">> \o W_a} : \E c \in {1, GroupChat} :
           /\ received < BroadcastMessages
           /\ Quiet(1)
           /\ receive(1, c, t)
    \/ \E u \in {1, 2} : \E p \in 1..BroadcastMessages :
           /\ received < BroadcastMessages
           /\ Quiet(u)
           /\ p \in 1..Len(prompts)
           /\ \E data \in {T_cancel, prompts[p].data} : callback_query(u, p, data)
    \/ \E w \in Workers : test_handlers(w)
    \/ \E w \in Workers : choose_role(w)
    \/ \E w \in Workers : broadcast_message(w)
    \/ \E w \in Workers : handle_callback(w)

SpecBroadcast == InitBroadcast /\ [][NextBroadcast]_vars

\* the drafts of the admin, in their private chat: with a colon and blanks,
\* longer than the preview, with a leading blank, after a line feed, and none
DraftMessages == 3

NextDraft ==
    \/ /\ received < DraftMessages
       /\ Quiet(2)
       /\ 2 \notin DOMAIN users
       /\ receive(2, 2, T_freelancer)
    \/ \E t \in BroadcastTexts \cup DraftTexts :
           /\ received < DraftMessages
           /\ Quiet(1)
           /\ receive(1, 1, t)
    \/ \E p \in 1..DraftMessages :
           /\ received < DraftMessages
           /\ Quiet(1)
           /\ p \in 1..Len(prompts)
           /\ callback_query(1, p, prompts[p].data)
    \/ \E w \in Workers : test_handlers(w)
    \/ \E w \in Workers : choose_role(w)
    \/ \E w \in Workers : broadcast_message(w)
    \/ \E w \in Workers : handle_callback(w)

SpecDraft == InitAdmin /\ [][NextDraft]_vars

\* worker w is at statement pc of handle_callback for a press of the confirm
\* button, and takes it
ConfirmStep(w, pc) ==
    /\ Took(w)
    /\ At(w, "handle_callback", pc)
    /\ StartsWith(workers[w].msg.text, T_confirm)

\* C3: a confirmed broadcast fetches the N users that are not banned and makes
\* one delivery attempt for each of them, in the order fetched: each turn of
\* the loop sends the announcement to the next user fetched and counts it as
\* sent or as failed, and a failure does not end the loop; the report that
\* follows the last turn says total N, sent N - K and failed K, K being the
\* number of the turns that failed.
C3_BroadcastCounts ==
    [][\A w \in Workers :
          LET me == workers[w]
              N == Len(me.fetched)
          IN  /\ ConfirmStep(w, "select") =>
                    /\ workers'[w].fetched = get_active_users(users)
                    /\ <<workers'[w].i, workers'[w].sent_count, workers'[w].failed_count>>
                          = <<0, 0, 0>>
                    /\ workers'[w].pc = IF get_active_users(users) = <<>> THEN "report" ELSE "send"
              /\ ConfirmStep(w, "send") =>
                    /\ me.i < N
                    /\ me.sent_count + me.failed_count = me.i
                    /\ Len(sent') = 1
                    /\ sent'[1].to = me.fetched[me.i + 1]
                    /\ sent'[1].kind = "announcement"
                    /\ workers'[w].fetched = me.fetched
                    /\ workers'[w].i = me.i + 1
                    /\ workers'[w].sent_count = me.sent_count + (IF sent'[1].ok THEN 1 ELSE 0)
                    /\ workers'[w].failed_count = me.failed_count + (IF sent'[1].ok THEN 0 ELSE 1)
                    /\ workers'[w].pc = IF me.i + 1 < N THEN "send" ELSE "report"
              /\ ConfirmStep(w, "report") =>
                    /\ me.i = N
                    /\ me.sent_count + me.failed_count = N
                    /\ sent'[1].to = me.msg.chat
                    /\ sent'[1].kind = "broadcast_complete"
                    /\ SubSeq(sent'[1].body, 1, 3)
                          = <<ToStr(N), ToStr(N - me.failed_count), ToStr(me.failed_count)>>
      ]_vars

\* the delivery to one of the two users fetched has failed, the other was
\* made, and the report says 2, 1 and 1
C3_Witness ==
    /\ \E w \in Workers :
          /\ At(w, "handle_callback", "log")
          /\ workers[w].fetched = <<2, 3>>
          /\ workers[w].failed_count = 1
    /\ Len(sent) = 1
    /\ sent[1].kind = "broadcast_complete"
    /\ sent[1].ok
    /\ SubSeq(sent[1].body, 1, 3) = <<ToStr(2), ToStr(1), ToStr(1)>>

\* the handlers of the admin operations
AdminHandlers == {"admin_dashboard", "admin_users", "admin_all_jobs", "view_user_detail",
                  "handle_ban_unban", "daily_report", "analytics", "broadcast_message",
                  "handle_callback"}

\* C9: no admin operation takes effect unless the caller is the admin: a
\* statement of an admin handler, the dispatch of a confirm press included,
\* that runs for another caller changes no row of users and sends nothing to
\* any other user.
C9_AdminOnly ==
    [][\A w \in Workers :
          (/\ Took(w)
           /\ workers[w].handler \in AdminHandlers
           /\ ~is_admin(workers[w].msg.from_user)) =>
              /\ users' = users
              /\ \A k \in 1..Len(sent') :
                    sent'[k].to \in {workers[w].msg.from_user, workers[w].msg.chat}
      ]_vars

\* C10: an announcement is sent only by the dispatch a confirm press starts,
\* for the draft of a confirmation message that was sent: broadcast_message
\* sends nothing but the confirmation message or the usage text to the chat
\* of the command; a cancel press edits the confirmation message, sends
\* nothing to any user, ends the handler and changes no table.
C10_BroadcastNeedsConfirm ==
    [][\A w \in Workers : Took(w) =>
          LET me == workers[w]
          IN  /\ (\E k \in 1..Len(sent') : sent'[k].kind = "announcement") =>
                    /\ ConfirmStep(w, "send")
                    /\ me.prompt \in 1..Len(prompts)
                    /\ prompts[me.prompt].data = me.msg.text
              /\ me.handler = "broadcast_message" =>
                    /\ \A k \in 1..Len(sent') :
                          /\ sent'[k].to = me.msg.chat
                          /\ sent'[k].kind \in {"confirmation", "usage_broadcast"}
                    /\ <<users', jobs', user_activity'>> = <<users, jobs, user_activity>>
              /\ (me.handler = "handle_callback" /\ me.msg.text = T_cancel) =>
                    /\ workers'[w].pc = "idle"
                    /\ \A k \in 1..Len(sent') :
                          /\ sent'[k].to = me.msg.chat
                          /\ sent'[k].kind = "edit_cancelled"
                    /\ <<users', jobs', user_activity', daily_metrics'>>
                          = <<users, jobs, user_activity, daily_metrics>>
      ]_vars

\* a confirmation message has been cancelled, with a user registered
C10_Witness ==
    /\ 2 \in DOMAIN users
    /\ \E p \in 1..Len(prompts) : prompts[p].shown = "cancelled"
    /\ sent = <<Out(1, "edit_cancelled", <<>>, TRUE)>>
    /\ \A w \in Workers : workers[w].pc = "idle"

\* C19: a confirmed broadcast appends one row to user_activity, for the
\* admin who sent the command, after all delivery attempts, and none for a
\* recipient: when handle_callback returns after the dispatch, its last
\* statement has appended the one broadcast_sent row, whose user is the admin.
C19_OneEventByInitiator ==
    [][\A w \in Workers :
          /\ (ConfirmStep(w, "send") \/ ConfirmStep(w, "report") \/ ConfirmStep(w, "log")) =>
                /\ workers'[w].pc = "idle" => workers[w].pc = "log"
                /\ workers[w].pc # "log" => user_activity' = user_activity
                /\ workers[w].pc = "log" =>
                      /\ Len(user_activity') = Len(user_activity) + 1
                      /\ user_activity'[Len(user_activity')].action = "broadcast_sent"
                      /\ user_activity'[Len(user_activity')].user_id = ADMIN_ID
      ]_vars

\* C11: for every draft the broadcast command accepts, a draft with colons
\* or blanks or longer than the preview included, the text taken from the
\* token of the confirm button and delivered to the users is the draft, the
\* text after the first blank of the command, character for character.
C11_TokenRoundTrip ==
    [][\A w \in Workers : Took(w) =>
          LET me == workers[w]
          IN  /\ (me.handler = "broadcast_message" /\ Len(prompts') > Len(prompts)) =>
                    /\ prompts' = Append(prompts, prompts'[Len(prompts')])
                    /\ token_text(prompts'[Len(prompts')].data)
                          = Suffix(me.msg.text, Find(me.msg.text, " "))
              /\ ConfirmStep(w, "send") =>
                    /\ sent'[1].kind = "announcement"
                    /\ sent'[1].body = token_text(prompts[me.prompt].data)
      ]_vars

\* the draft of 101 characters has been delivered whole to user 2
C11_Witness ==
    /\ sent = <<Out(2, "announcement", W_long, TRUE)>>
    /\ Len(sent[1].body) = PreviewLen + 1

(* ------------------------- the metrics aggregator ---------------------- *)
\* on a host in any of the zones a user registers and the admin bans them,
\* while the scheduled run, the run of a main() called again
\* and the two midnights come at any moment
MetricsMessages == 2

NextMetrics ==
    \/ /\ received < MetricsMessages
       /\ Quiet(2)
       /\ 2 \notin DOMAIN users
       /\ receive(2, 2, T_client)
    \/ /\ received < MetricsMessages
       /\ Quiet(1)
       /\ receive(1, 1, T_ban_ \o <<"2">>)
    \/ \E w \in Workers : test_handlers(w)
    \/ \E w \in Workers : choose_role(w)
    \/ \E w \in Workers : handle_ban_unban(w)
    \/ \E th \in MetricsThreads : update_daily_metrics(th)
    \/ schedule_metrics_update
    \/ main
    \/ NextDay
    \/ NextDayUTC

SpecMetrics ==
    /\ \E tz \in {"behind", "UTC", "ahead"} : Started(1, tz, 0, 0)
    /\ [][NextMetrics]_vars

\* the row of date d in table tbl
RowsOf(tbl, d) == SelectSeq(tbl, LAMBDA r : r.date = d)

\* the counts of date D in tables us (users), js (jobs) and acts
\* (user_activity): users created on D, jobs created on D, distinct users with
\* a row of D
DayCounts(us, js, acts, D) ==
    [date |-> D,
     new_users |-> Cardinality({u \in DOMAIN us : us[u].created = D}),
     new_jobs |-> Cardinality({j \in 1..Len(js) : js[j].created = D}),
     active_users |-> Cardinality({u \in Users : \E k \in 1..Len(acts) :
                                      acts[k].user_id = u /\ acts[k].timestamp = D})]

\* C12: after any number of runs of update_daily_metrics for a date, of
\* main() and of the scheduler, interleaved with each other and with the
\* handlers, daily_metrics has one row for the date: no date has two rows,
\* and a run that ends leaves a row for its date; and of two runs with no
\* write to users, jobs or user_activity during or between them, the second
\* leaves the row of the date with the values the first left.
C12_MetricsIdempotent ==
    [][/\ \A i, j \in 1..Len(daily_metrics') :
             daily_metrics'[i].date = daily_metrics'[j].date => i = j
       /\ Len(runs') = 2 => runs'[1] = runs'[2]
       /\ \A th \in MetricsThreads :
             (metrics[th].pc = "insert" /\ metrics'[th].pc = "idle") =>
                 Len(RowsOf(daily_metrics', metrics[th].today)) = 1
      ]_vars

\* C22: right after a run of update_daily_metrics for date D, the row of D
\* holds the number of users created on D, the number of jobs created on D
\* and the number of distinct users with a user_activity row of D; and the
\* run leaves the rows of the other dates as they are.
C22_MetricsCountTheDay ==
    [][\A th \in MetricsThreads :
          (metrics[th].pc = "insert" /\ metrics'[th].pc = "idle") =>
              LET D == metrics[th].today
              IN  /\ RowsOf(daily_metrics', D) = <<DayCounts(users', jobs', user_activity', D)>>
                  /\ SelectSeq(daily_metrics', LAMBDA r : r.date # D)
                        = SelectSeq(daily_metrics, LAMBDA r : r.date # D)
      ]_vars

(* ----------------------------- admin reports --------------------------- *)
\* the admin asks for every report, before and after a client has registered
\* and answered the questions of the job flow, midnight has passed and
\* update_daily_metrics has run;
\* the client asks for the dashboard too, and the text is taken for the
\* answer to the question they are at
ReportMessages == 4

NextReports ==
    \/ \E t \in ReportTexts :
           /\ received < ReportMessages
           /\ Quiet(1)
           /\ receive(1, 1, t)
    \/ \E t \in {T_client, T_dashboard} :
           /\ received < ReportMessages
           /\ Quiet(2)
           /\ t = T_client <=> 2 \notin DOMAIN users
           /\ receive(2, 2, t)
    \/ \E w \in Workers : test_handlers(w)
    \/ \E w \in Workers : choose_role(w)
    \/ \E w \in Workers : handle_job_title(w)
    \/ \E w \in Workers : handle_job_description(w)
    \/ \E w \in Workers : handle_job_budget(w)
    \/ \E w \in Workers : admin_dashboard(w)
    \/ \E w \in Workers : admin_users(w)
    \/ \E w \in Workers : admin_all_jobs(w)
    \/ \E w \in Workers : view_user_detail(w)
    \/ \E w \in Workers : daily_report(w)
    \/ \E w \in Workers : analytics(w)
    \/ \E th \in MetricsThreads : update_daily_metrics(th)
    \/ schedule_metrics_update
    \/ NextDay

SpecReports == InitAdmin /\ [][NextReports]_vars

ReportHandlers == {"admin_dashboard", "admin_users", "admin_all_jobs", "view_user_detail",
                   "daily_report", "analytics"}

\* C17: no statement of a report handler changes a table or user_state; for
\* the admin, the user detail of a numeric id without a row answers "not
\* found" with the id, as int() reads it; the user list without a user who is not banned, the
\* job list without a job, the daily report without a row of yesterday and
\* the analytics without a row in its window answer with their texts for
\* no data, and the dashboard without an event of a user who is not banned
\* lists no activity.
C17_ReportsArePure ==
    [][\A w \in Workers :
          (Took(w) /\ workers[w].handler \in ReportHandlers) =>
              LET me == workers[w]
                  parts == SplitWS(me.msg.text)
                  Answer == IF sent' = <<>> THEN "None" ELSE sent'[1].kind
              IN  /\ UNCHANGED <<users, jobs, user_activity, daily_metrics, user_state>>
                  /\ is_admin(me.msg.from_user) =>
                        /\ (/\ At(w, "view_user_detail", "select")
                            /\ Len(parts) >= 2
                            /\ IntOk(parts[2])
                            /\ UserId(IntOf(parts[2])) \notin DOMAIN users) =>
                               /\ Answer = "user_not_found"
                               /\ sent'[1].body = <<IntOf(parts[2])>>
                               /\ workers'[w].pc = "idle"
                        /\ (/\ me.handler = "admin_users"
                            /\ \A v \in DOMAIN users : users[v].is_banned # 0) =>
                               Answer = "no_users"
                        /\ (me.handler = "admin_all_jobs" /\ jobs = <<>>) =>
                               Answer = "no_jobs_posted"
                        /\ (/\ me.handler = "daily_report"
                            /\ \A k \in 1..Len(daily_metrics) :
                                  daily_metrics[k].date # today - 1) =>
                               Answer = "no_data"
                        /\ (/\ me.handler = "analytics"
                            /\ \A k \in 1..Len(daily_metrics) :
                                  daily_metrics[k].date < today - AnalyticsDays) =>
                               Answer = "no_analytics"
                        /\ (/\ At(w, "admin_dashboard", "recent_activities")
                            /\ \A i \in 1..Len(user_activity) :
                                  \/ user_activity[i].user_id \notin DOMAIN users
                                  \/ users[user_activity[i].user_id].is_banned # 0) =>
                               /\ Answer = "dashboard"
                               /\ sent'[1].body.activities = <<>>
      ]_vars

(* ------------------ messages sent without waiting ---------------------- *)
\* a client selects their role and then sends their answers one right after the
\* other, without waiting for the bot: the worker threads take them as they
\* come
ThreadMessages == 5

NextThreads ==
    \/ /\ received < ThreadMessages
       /\ 2 \notin DOMAIN users
       /\ Quiet(2)
       /\ receive(2, 2, T_client)
    \/ /\ received < ThreadMessages
       /\ 2 \in DOMAIN users
       /\ receive(2, 2, W_a)
    \/ \E w \in Workers : test_handlers(w)
    \/ \E w \in Workers : choose_role(w)
    \/ \E w \in Workers : handle_job_title(w)
    \/ \E w \in Workers : handle_job_description(w)
    \/ \E w \in Workers : handle_job_budget(w)
    \/ \E w \in Workers : handle_unknown(w)

SpecThreads == InitAdmin /\ [][NextThreads]_vars

\* C15: the messages of one user take effect in the order received: the
\* handler of a message is chosen, and every statement of it is taken, when
\* no earlier message of the same user is still being handled.
C15_PerUserOrder ==
    [][\A w \in Workers :
          Took(w) =>
              \A x \in Workers \ {w} :
                  ~(/\ workers[x].pc # "idle"
                    /\ workers[x].msg.from_user = workers[w].msg.from_user
                    /\ workers[x].msg.seq < workers[w].msg.seq)
      ]_vars

\* C16: when a user sends the same step twice at once, the outcome is that of
\* one submission followed by the other: the one accumulated title and
\* description give at most one job row, and no handler fails on an entry of
\* user_state that is gone or incomplete.
C16_DoubleSubmission ==
    /\ Len(jobs) <= 1
    /\ \A w \in Workers : ~KeyError(w)

(* ------------------------------ restarts ------------------------------- *)
\* a client goes through the flow of a job while the process is stopped and
\* started again, or main() is called again, at any moment; after a restart
\* they go on answering the question they were asked last
RestartMessages == 4

NextRestart ==
    \/ \E t \in {T_client, W_a} :
           /\ received < RestartMessages
           /\ Quiet(2)
           /\ t = T_client <=> (Step(2) = "None" /\ 2 \notin DOMAIN lost)
           /\ receive(2, 2, t)
    \/ \E w \in Workers : test_handlers(w)
    \/ \E w \in Workers : choose_role(w)
    \/ \E w \in Workers : handle_job_title(w)
    \/ \E w \in Workers : handle_job_description(w)
    \/ \E w \in Workers : handle_job_budget(w)
    \/ \E w \in Workers : handle_unknown(w)
    \/ \E th \in MetricsThreads : update_daily_metrics(th)
    \/ main
    \/ restart

SpecRestart == InitAdmin /\ [][NextRestart]_vars

\* C8: when the entry of a client is lost in a restart after the title or the
\* description, the next message of the client creates no job row, and the
\* client gets an answer (that tells them to start the flow again).
C8_LostStateFailsClosed ==
    [][\A w \in Workers :
          (Took(w) /\ workers[w].orphan) =>
              /\ jobs' = jobs
              /\ workers'[w].pc = "idle" => sent' # <<>>
      ]_vars

\* C25: in every state, after a restart that empties user_state as well, the
\* client_id of every row of jobs is the id of a row of users.
C25_JobClientExists ==
    \A j \in 1..Len(jobs) : jobs[j].client_id \in DOMAIN users

\* a job posted before the restart, whose client has their row after it
C25_Witness ==
    /\ restarts = 1
    /\ user_state = Empty
    /\ Len(jobs) = 1
    /\ jobs[1].client_id = 2
    /\ 2 \in DOMAIN users
    /\ \A th \in MetricsThreads : metrics[th].pc = "idle"

(* ----------------------- a failing log_activity ------------------------ *)
\* a freelancer and a client go through their flows and the freelancer sends
\* commands, while one write of log_activity may fail
FaultyMessages == 4

InitFaulty == Started(1, "UTC", MaxLogFailures, 0)

NextFaulty ==
    \/ \E t \in {T_start, T_freelancer, T_jobs, T_profile, T_help, T_foo, W_a} :
           /\ received < FaultyMessages
           /\ Quiet(2)
           /\ t = W_a <=> Step(2) # "None"
           /\ receive(2, 2, t)
    \/ \E t \in {T_client, W_a} :
           /\ received < FaultyMessages
           /\ Quiet(3)
           /\ t = T_client <=> Step(3) = "None"
           /\ receive(3, 3, t)
    \/ \E w \in Workers : test_handlers(w)
    \/ \E w \in Workers : start(w)
    \/ \E w \in Workers : choose_role(w)
    \/ \E w \in Workers : handle_skills(w)
    \/ \E w \in Workers : handle_location(w)
    \/ \E w \in Workers : handle_job_title(w)
    \/ \E w \in Workers : handle_job_description(w)
    \/ \E w \in Workers : handle_job_budget(w)
    \/ \E w \in Workers : list_jobs_command(w)
    \/ \E w \in Workers : profile_command(w)
    \/ \E w \in Workers : help_command(w)
    \/ \E w \in Workers : handle_unknown(w)

SpecFaulty == InitFaulty /\ [][NextFaulty]_vars

\* a statement of a handler that calls log_activity, taken by worker w
LoggingStep(w) ==
    \/ start(w)
    \/ choose_role(w)
    \/ handle_skills(w)
    \/ handle_location(w)
    \/ handle_job_budget(w)
    \/ list_jobs_command(w)
    \/ profile_command(w)
    \/ help_command(w)
    \/ handle_unknown(w)

\* C20: a failure of the write of log_activity is not propagated: a
\* statement whose call of log_activity fails appends no row, and everything
\* else it does (the rows of users and jobs it writes, the entry of
\* user_state, the messages it sends, the statement the handler goes on
\* with) is what the same statement does when the write succeeds.
C20_LogFailureSwallowed ==
    [][\A w \in Workers :
          (Took(w) /\ faults' < faults) =>
              /\ user_activity' = user_activity
              /\ \E U \in {users'}, J \in {jobs'}, S \in {user_state'}, M \in {sent'},
                    P \in {[workers'[w] EXCEPT !.logged = 0]} :
                    ENABLED (/\ LoggingStep(w)
                             /\ faults' = faults
                             /\ Len(user_activity') = Len(user_activity) + 1
                             /\ users' = U
                             /\ jobs' = J
                             /\ user_state' = S
                             /\ sent' = M
                             /\ [workers'[w] EXCEPT !.logged = 0] = P)
      ]_vars

\* the write of the set_skills row failed: the skills are stored and the
\* freelancer has been asked for their location
C20_Witness ==
    /\ faults = 0
    /\ 2 \in DOMAIN users
    /\ users[2].skills = W_a
    /\ Step(2) = "ask_location"
    /\ \A k \in 1..Len(user_activity) : user_activity[k].action # "set_skills"
    /\ sent = <<Out(2, "ask_location", <<>>, TRUE)>>

(* --------------------------- the four tables --------------------------- *)
\* every handler that writes a table: a client posts a job, a freelancer
\* registers and sends commands, the admin bans, unbans and broadcasts
TableMessages == 5

NextTables ==
    \/ \E t \in {T_client, W_a} :
           /\ received < TableMessages
           /\ Quiet(2)
           /\ t = T_client <=> Step(2) = "None"
           /\ receive(2, 2, t)
    \/ \E t \in {T_start, T_freelancer, T_foo} :
           /\ received < TableMessages
           /\ Quiet(3)
           /\ Step(3) = "None"
           /\ receive(3, 3, t)
    \/ \E t \in {T_ban_ \o <<"2">>, T_unban_ \o <<"2">>, T_broadcast \o <<" ">> \o W_a} :
           /\ received < TableMessages
           /\ Quiet(1)
           /\ receive(1, 1, t)
    \/ \E p \in 1..TableMessages :
           /\ received < TableMessages
           /\ Quiet(1)
           /\ p \in 1..Len(prompts)
           /\ callback_query(1, p, prompts[p].data)
    \/ \E w \in Workers : test_handlers(w)
    \/ \E w \in Workers : start(w)
    \/ \E w \in Workers : choose_role(w)
    \/ \E w \in Workers : handle_job_title(w)
    \/ \E w \in Workers : handle_job_description(w)
    \/ \E w \in Workers : handle_job_budget(w)
    \/ \E w \in Workers : handle_ban_unban(w)
    \/ \E w \in Workers : broadcast_message(w)
    \/ \E w \in Workers : handle_callback(w)
    \/ \E w \in Workers : handle_unknown(w)

SpecTables == InitAdmin /\ [][NextTables]_vars

\* C24: across the operations of the users and of the admin, a row of
\* user_activity is never changed or removed (rows are appended), no row of
\* users and no row of jobs is deleted, and every row of jobs has status open.
C24_TablesOnlyGrow ==
    [][/\ Len(user_activity') >= Len(user_activity)
       /\ SubSeq(user_activity', 1, Len(user_activity)) = user_activity
       /\ DOMAIN users \subseteq DOMAIN users'
       /\ Len(jobs') >= Len(jobs)
       /\ \A j \in 1..Len(jobs) : jobs'[j] = jobs[j]
       /\ \A j \in 1..Len(jobs') : jobs'[j].status = "open"
      ]_vars

\* a job has been posted by a client who is banned now, and its rows and the
\* events of the flow are there
C24_Witness ==
    /\ Len(jobs) = 1
    /\ jobs[1].status = "open"
    /\ users[2].is_banned = 1
    /\ Len(EventsOf(user_activity, 2)) = 2
    /\ \A w \in Workers : workers[w].pc = "idle"

====
